---------------------------- MODULE Spec2Model ----------------------------
(***************************************************************************)
(* The pattern-detection and severity-scoring engine of the coercive       *)
(* control analyzer: DARVOAnalyzer (darvo_analyzer.py) with its lexicon     *)
(* (darvo_indicators.py), and ConversationAnalyzer's abuse-pattern scan     *)
(* (conversation_analyzer.py, abuse_indicators.py, message_normalizer.py). *)
(*                                                                         *)
(* Texts are TLA+ strings; matching works on their characters, as          *)
(* re.search(r'\b' + re.escape(keyword) + r'\b', text) does.  A point in   *)
(* time is a day number, day 0 being a Monday (datetime(2024, 1, 1)).      *)
(***************************************************************************)
EXTENDS Integers, Sequences, FiniteSets, TLC

VARIABLES
  env,      \* the bounded input domain of this behaviour, fixed by Init
  input,    \* the caller's message list
  doc,      \* the caller's document text ("" when none)
  pc,       \* "input": caller assembling; "darvo" / "conv": analyzer built;
            \* "text": the list was handed to analyze_text; "engine": to
            \* the pattern engine
  darvo,    \* the DARVOAnalyzer object: its messages and text fields
  conv,     \* the ConversationAnalyzer object: messages and abuse_patterns
  results,  \* what analyze_darvo_patterns returned, call by call
  scans,    \* what analyze_abuse_patterns returned, call by call
  clock,    \* the wall clock, read by datetime.now()
  escalations, \* what analyze_escalation_patterns returned, call by call
  findings, \* what analyze_text returned, call by call
  advanced  \* what the pattern engine's analyze_conversation returned

vars ==
  << env, input, doc, pc, darvo, conv, results, scans, clock, escalations, findings,
     advanced >>

(***************************************************************************)
(* The lexicon: darvo_indicators.py and abuse_indicators.py, verbatim.     *)
(* A dict is a sequence of entries in insertion order.  Adjacent string    *)
(* literals without a comma between them in abuse_indicators.py are one    *)
(* keyword, as Python concatenates them.                                   *)
(***************************************************************************)
DARVO_INDICATORS ==
  [Deny |-> <<
      [name |-> "minimization", keywords |-> <<
          "it wasn't that bad", "you're exaggerating", "it's not a big deal",
          "you're making it worse than it was", "that never happened",
          "you're remembering it wrong", "it wasn't like that",
          "you're blowing it out of proportion", "I barely", "I hardly", "all I did was",
          "I only", "just a little", "not as bad as", "everyone does it", "it's normal",
          "that's just how I am" >>],
      [name |-> "outright_denial", keywords |-> <<
          "I never said that", "I never did that", "that didn't happen", "you're lying",
          "you made that up", "prove it", "where's your evidence", "that's not true",
          "I would never", "you're making things up", "I don't remember that",
          "you're confused", "you're mistaken", "that's fabricated", "complete lies",
          "false accusations" >>],
      [name |-> "blame_shifting", keywords |-> <<
          "you made me", "you provoked me", "you started it", "if you hadn't",
          "you caused this", "it's your fault", "you pushed me to", "you left me no choice",
          "what did you expect", "you should have", "you shouldn't have", "because of you",
          "you're responsible for", "you brought this on yourself" >>] >>,
   Attack |-> <<
      [name |-> "credibility_attacks", keywords |-> <<
          "you're crazy", "you're mentally ill", "you're unstable", "you need help",
          "you're delusional", "you're paranoid", "you're irrational",
          "you can't be trusted", "you're unreliable", "everyone knows you're",
          "history of lying", "track record", "you always lie", "nobody believes you",
          "you're not credible", "you have issues", "seek therapy", "get help" >>],
      [name |-> "character_assassination", keywords |-> <<
          "you're a bad mother", "you're a bad father", "unfit parent", "bad person",
          "terrible", "vindictive", "vengeful", "manipulative", "controlling", "abusive",
          "toxic", "you're the problem", "you're the one", "you're actually",
          "you're just like", "narcissist", "sociopath", "psycho" >>],
      [name |-> "threat_of_consequences", keywords |-> <<
          "I'll tell everyone", "I'll expose you", "everyone will know",
          "you'll lose the kids", "I'll take the children", "custody", "I'll ruin you",
          "destroy your reputation", "nobody will believe you", "you'll regret this",
          "you'll pay for this", "I'll make sure", "the court will see",
          "the judge will know", "I'll prove", "evidence against you",
          "document everything", "legal action" >>],
      [name |-> "gaslighting", keywords |-> <<
          "that never happened", "you're imagining things", "you're too sensitive",
          "you're overreacting", "you can't take a joke", "you're being dramatic",
          "you're twisting things", "that's not what I meant", "you misunderstood",
          "you're reading too much into it", "you're being ridiculous",
          "you're making a scene", "calm down", "relax" >>] >>,
   Reverse_Victim_Offender |-> <<
      [name |-> "self_victimization", keywords |-> <<
          "I'm the victim here", "I'm the one suffering", "what about me",
          "I'm being attacked", "I'm being abused", "I'm being harassed",
          "you're hurting me", "you're destroying me", "I can't take this anymore",
          "look what you've done to me", "I'm the one in pain",
          "I'm being treated unfairly", "I'm being persecuted", "this is abuse",
          "you're abusing me", "I need protection from you" >>],
      [name |-> "victim_blaming", keywords |-> <<
          "you're the real abuser", "you're the manipulator", "you're controlling",
          "you're the violent one", "you started this", "you're the aggressor",
          "you're alienating the children", "parental alienation",
          "you're turning them against me", "you're poisoning them",
          "you're using the children", "you're the narcissist", "you're projecting",
          "you're doing exactly what you accuse me of" >>],
      [name |-> "false_equivalence", keywords |-> <<
          "we're both", "you do it too", "you're just as bad", "you're no better",
          "we both", "mutual abuse", "it's mutual", "both sides", "we're equally",
          "you also", "what about when you", "remember when you", "you've done worse",
          "at least I didn't" >>],
      [name |-> "protective_parent_reversal", keywords |-> <<
          "I'm protecting the children from you", "the children are afraid of you",
          "I'm the safe parent", "you're unstable around the kids",
          "I'm the primary caregiver", "the children need me", "you're a danger to them",
          "I'm keeping them safe", "they don't want to see you", "they're scared of you",
          "I'm acting in their best interest" >>] >>,
   Institutional_DARVO |-> <<
      [name |-> "court_manipulation", keywords |-> <<
          "false allegations", "she's lying to the court", "he's deceiving the judge",
          "fabricated evidence", "coached the children", "parental alienation syndrome",
          "high conflict parent", "making false reports", "weaponizing the system",
          "abusing the legal process", "frivolous complaints", "attention seeking",
          "playing the victim card" >>],
      [name |-> "professional_credibility", keywords |-> <<
          "I'm a professional", "I'm a respected member", "my reputation",
          "my standing in the community", "never had complaints before", "exemplary record",
          "decorated", "award winning", "everyone knows me as", "ask anyone",
          "references will show" >>],
      [name |-> "systemic_bias_indicators", keywords |-> <<
          "mothers always get", "fathers are discriminated against", "the system is biased",
          "family court favors", "automatically believes", "without investigation",
          "rushed to judgment", "presumed guilty", "not given a fair chance",
          "predetermined outcome" >>] >> ]

DARVO_COMPOUND_PATTERNS ==
  << [name |-> "deny_then_attack",
      description |-> "Denying wrongdoing immediately followed by attacking the accuser",
      pattern |-> << "deny", "attack" >>, window_messages |-> 3],
     [name |-> "attack_then_reverse",
      description |-> "Attacking credibility then claiming to be the victim",
      pattern |-> << "attack", "reverse" >>, window_messages |-> 5],
     [name |-> "full_darvo_sequence",
      description |-> "Complete DARVO sequence: deny, attack, then reverse",
      pattern |-> << "deny", "attack", "reverse" >>, window_messages |-> 10] >>

DARVO_SEVERITY_WEIGHTS ==
  [ Deny |->
      [minimization |-> 1, outright_denial |-> 2, blame_shifting |-> 3],
    Attack |->
      [credibility_attacks |-> 3, character_assassination |-> 4, threat_of_consequences |-> 5, gaslighting |-> 3],
    Reverse_Victim_Offender |->
      [self_victimization |-> 3, victim_blaming |-> 4, false_equivalence |-> 2, protective_parent_reversal |-> 5],
    Institutional_DARVO |->
      [court_manipulation |-> 5, professional_credibility |-> 2, systemic_bias_indicators |-> 3] ]

CHILD_FOCUSED_DARVO ==
  <<
    [name |-> "child_weaponization", keywords |-> <<
        "the children say", "ask the kids", "children don't lie", "they told me about",
        "they witnessed", "they're afraid of you", "they don't want to see you",
        "they asked me to", "protecting the children", "for the kids' safety" >>],
    [name |-> "parental_alienation_claims", keywords |-> <<
        "parental alienation", "turning the children against me", "poisoning their minds",
        "coaching the children", "brainwashing", "manipulating the kids" >>],
    [name |-> "custody_threats", keywords |-> <<
        "you'll never see them again", "I'll get full custody", "no visitation",
        "supervised visits only", "unfit parent", "not safe around children",
        "danger to the kids" >>] >>

ABUSE_INDICATORS ==
  <<
    [category |-> "Isolation", keywords |-> <<
        "don't talk to", "stay away from", "no friends", "bad influence", "don't go out",
        "who were you with", "where were you", "check your phone", "give me your password",
        "you spend too much time with", "they don't like me", "choose them or me",
        "forbidden", "not allowed", "grounded", "cut off", "block them",
        "delete their number", "why didn't you answer", "tracking", "location", "gps",
        "constantly calling", "texting all the time", "controlling who you see",
        "limiting outside involvement", "jealousy", "monitoring calls",
        "making you account for your time", "interrogating your whereabouts",
        "isolating from support", "restraint", "confinement", "removal from home",
        "preventing access to services", "ghosting", "gaslighting", "breadcrumbing",
        "orbiting", "love bombing", "dry textingcut off from family", "no contact allowed",
        "can't see your friends", "blocked from social media", "forced to move",
        "not allowed to work", "kept at home", "monitored calls", "monitored texts",
        "no privacy", "read your messages", "read your diary", "spying on you",
        "hidden cameras", "listening devices", "forced to share location",
        "demanding check-ins", "constant surveillance" >>],
    [category |-> "Emotional Abuse / Degradation", keywords |-> <<
        "crazy", "stupid", "worthless", "fat", "ugly", "useless",
        "nobody else would want you", "lucky to have me", "it's all your fault",
        "you make me do this", "too sensitive", "can't take a joke", "overreacting",
        "imagining things", "liar", "pathetic", "disgusting", "whore", "slut", "cheat",
        "unfaithful", "brainwashed", "mental", "psycho", "bitch", "shut up", "idiot",
        "incompetent", "failure", "put-downs", "name-calling", "humiliation",
        "making you feel guilty", "playing mind games", "making you feel crazy",
        "minimizing abuse", "verbal abuse", "emotional harm", "demeaning language", "simp",
        "pick me", "trash", "clown", "salty", "flexing", "ratioedgaslight", "crazy-making",
        "you're imagining things", "no one believes you", "you're paranoid",
        "you're dramatic", "always your fault", "never good enough", "hopeless",
        "unlovable", "nobody cares", "everyone hates you", "you're a burden", "crybaby",
        "overly emotional", "can't trust you", "you're broken", "damaged", "always wrong",
        "never right" >>],
    [category |-> "Financial Control", keywords |-> <<
        "my money", "allowance", "receipts", "how much did you spend", "can't afford",
        "waste of money", "stole", "bank account", "credit card", "pin number", "paycheck",
        "deposit", "sign this", "debt", "loan", "owing me", "buying love",
        "financial support", "work", "quit your job", "get a job", "control the finances",
        "taking your money", "not letting you work", "making you ask for money",
        "withholding funds", "stealing from you", "ruining your credit", "economic abuse",
        "financial exploitation", "fraud", "sugar daddy", "venmo me", "cash app", "finesse",
        "scamcan't have your own account", "no access to money",
        "forced to hand over paycheck", "not allowed to spend",
        "questioning every purchase", "financial punishment", "withholding necessities",
        "forced to sign loans", "forced debt", "ruined credit", "stolen identity",
        "forced to beg for money" >>],
    [category |-> "Threats / Intimidation", keywords |-> <<
        "kill you", "kill myself", "take the kids", "hurt the kids", "hurt your family",
        "destroy", "burn", "break", "smash", "hit", "punch", "slap", "kick", "choke",
        "strangle", "weapon", "gun", "knife", "watch your back", "regret it",
        "make you pay", "call the police", "report you", "deport", "ruin your reputation",
        "out you", "tell everyone", "making you afraid", "threatening to hurt you",
        "displaying weapons", "destroying property", "abusing pets", "stalking",
        "terrorizing", "menacing", "harassment", "intimidation", "dox", "swat", "cancel",
        "expose", "leak", "dragthreaten to leave", "threaten to harm pets",
        "threaten to ruin career", "threaten to expose secrets", "threaten to call cps",
        "threaten to get custody", "threaten to hurt themselves", "threaten to hurt you",
        "threaten to make you homeless", "threaten to get you fired",
        "threaten to ruin your life" >>],
    [category |-> "Sexual Coercion", keywords |-> <<
        "owe me", "if you loved me", "don't be a prude", "frigid", "duty", "obligation",
        "force", "pain", "stop acting like", "make me happy", "prove it", "boring",
        "everyone else does it", "porn", "pictures", "video", "forcing sex",
        "making you do sexual things", "criticizing sexuality", "withholding affection",
        "using jealousy sexually", "sexual assault", "sexual exploitation",
        "non-consensual", "thirst trap", "nudes", "sext", "slide into DMs",
        "catfishpressured for sex", "forced to watch porn", "forced to perform acts",
        "withholding intimacy", "threaten to cheat", "threaten to leave if no sex",
        "forced pregnancy", "birth control sabotage", "stealthing", "unwanted touching",
        "sexual blackmail", "revenge porn" >>],
    [category |-> "Digital / Tech Abuse", keywords |-> <<
        "share location", "read texts", "check emails", "social media password",
        "who liked your photo", "delete that post", "spyware", "camera", "recording",
        "listening", "tracker", "airtag", "find my iphone", "history", "browser history",
        "fake profile", "monitoring online activity", "hacking accounts", "cyberstalking",
        "revenge porn", "impersonation", "posting without consent", "electronic harassment",
        "digital impersonation", "online threats", "finsta", "ghost account", "subtweet",
        "slide into DMs", "blockchain scamforced to share passwords",
        "demanding access to phone", "installing tracking apps", "posting without consent",
        "threatening to leak nudes", "catfishing", "impersonating online", "spamming calls",
        "spamming messages", "public shaming online", "doxxing", "cyberbullying" >>] >>

(***************************************************************************)
(* Characters, str.lower() and the word-boundary search.                   *)
(***************************************************************************)
UpperCase ==
  {"A","B","C","D","E","F","G","H","I","J","K","L","M",
   "N","O","P","Q","R","S","T","U","V","W","X","Y","Z"}

LowerOf ==
  [c \in UpperCase |->
     CASE c = "A" -> "a" [] c = "B" -> "b" [] c = "C" -> "c" [] c = "D" -> "d"
       [] c = "E" -> "e" [] c = "F" -> "f" [] c = "G" -> "g" [] c = "H" -> "h"
       [] c = "I" -> "i" [] c = "J" -> "j" [] c = "K" -> "k" [] c = "L" -> "l"
       [] c = "M" -> "m" [] c = "N" -> "n" [] c = "O" -> "o" [] c = "P" -> "p"
       [] c = "Q" -> "q" [] c = "R" -> "r" [] c = "S" -> "s" [] c = "T" -> "t"
       [] c = "U" -> "u" [] c = "V" -> "v" [] c = "W" -> "w" [] c = "X" -> "x"
       [] c = "Y" -> "y" [] c = "Z" -> "z"]

\* The characters \w matches: letters, digits and the underscore.
WordChars ==
  UpperCase \cup {LowerOf[c] : c \in UpperCase}
            \cup {"0","1","2","3","4","5","6","7","8","9","_"}

\* The characters \s matches among those the sample texts use.
WhiteSpace == {" ", "\t", "\n"}

CharAt(s, i) == SubSeq(s, i, i)

\* The strings here are ASCII.  Four characters that no keyword and no other
\* sample text uses stand for the typographic quotes U+2018, U+2019, U+201C
\* and U+201D; like them they are neither letters nor white space.
LeftSingleQuote == "^"

RightSingleQuote == "~"

LeftDoubleQuote == "{"

RightDoubleQuote == "}"

\* str.lower(), a character at a time (s[lo..hi], split in halves).
RECURSIVE LowerRange(_, _, _)
LowerRange(s, lo, hi) ==
  IF lo > hi THEN ""
  ELSE IF lo = hi
  THEN LET c == CharAt(s, lo) IN IF c \in UpperCase THEN LowerOf[c] ELSE c
  ELSE LET mid == (lo + hi) \div 2
       IN  LowerRange(s, lo, mid) \o LowerRange(s, mid + 1, hi)

lower(s) == LowerRange(s, 1, Len(s))

\* text[:n]
Prefix(s, n) == SubSeq(s, 1, IF Len(s) < n THEN Len(s) ELSE n)

IsWordAt(s, i) == i >= 1 /\ i <= Len(s) /\ CharAt(s, i) \in WordChars

\* \b before the character at position i (i = Len(s) + 1: at the end).
WordBoundary(s, i) == IsWordAt(s, i - 1) # IsWordAt(s, i)

\* A search for the keyword anywhere in the text, inside words too.
SubstringSearch(keyword, text) ==
  \E i \in 1..(Len(text) - Len(keyword) + 1) :
     SubSeq(text, i, i + Len(keyword) - 1) = keyword

\* re.search(r'\b' + re.escape(keyword) + r'\b', text): the escaped keyword
\* matches itself literally, between two word boundaries.
re_search(keyword, text) ==
  \E i \in 1..(Len(text) - Len(keyword) + 1) :
     /\ SubSeq(text, i, i + Len(keyword) - 1) = keyword
     /\ WordBoundary(text, i)
     /\ WordBoundary(text, i + Len(keyword))

\* for keyword in keywords: if re.search(...): <body>; break
\* The indices of the keywords the body runs for: the first match only.
RECURSIVE ScanFrom(_, _, _)
ScanFrom(keywords, text, k) ==
  IF k > Len(keywords) THEN << >>
  ELSE IF re_search(lower(keywords[k]), text) THEN << k >>
  ELSE ScanFrom(keywords, text, k + 1)

\* The same loop without its break: the body runs for every matching keyword.
ScanNoBreak(keywords, text) ==
  SelectSeq([k \in 1..Len(keywords) |-> k],
            LAMBDA k : re_search(lower(keywords[k]), text))

ScanKeywords(keywords, text) == ScanFrom(keywords, text, 1)

\* any(re.search(...) for subcat in category.values() for kw in subcat)
AnyKeyword(subcategories, text) ==
  \E s \in DOMAIN subcategories :
     \E k \in DOMAIN subcategories[s].keywords :
        re_search(lower(subcategories[s].keywords[k]), text)

(***************************************************************************)
(* Messages.  A timestamp is a datetime (a day number) or None.            *)
(***************************************************************************)
None == [kind |-> "none", day |-> 0]

datetime(d) == [kind |-> "datetime", day |-> d]

\* datetime.isoformat(): a string, no longer a datetime.
isoformat(ts) == [kind |-> "isoformat", day |-> ts.day]

\* A timestamp that is a string in none of the formats a parser knows
\* ('yesterday').
Malformed == [kind |-> "str", day |-> 0]

\* "if timestamp": None is falsy, every datetime and every non-empty string
\* is truthy.
Truthy(ts) == ts.kind # "none"

\* None in a text field, written as a string that no message text equals.
NoneText == "<None>"

\* msg.get('text', ''): a message may lack the field.
get_text(msg) == IF "text" \in DOMAIN msg THEN msg.text ELSE ""

Msg(text, sender, ts) ==
  [text |-> text, sender |-> sender, timestamp |-> ts, platform |-> "test"]

(***************************************************************************)
(* The sample inputs each specification draws its messages from.           *)
(***************************************************************************)
TextHello   == "Hello, how are you?"
TextDeny    == "I never said that. You are making things up."
TextAttack  == "You're crazy and nobody will believe you."
TextReverse == "I'm the victim here. You're abusing me."
TextDenyAttack == "That never happened."
TextDocument == "I never said that. You're crazy. I'm the victim here."
TextScore1  == "I only asked."
TextCustody == "I want custody."
TextScore15 == "False allegations. The children need me. I'll ruin you."
TextScore25 ==
  "False allegations. The children need me. I'll ruin you. You're the real abuser. You made me. You're crazy."
TextChild   == "You're an unfit parent. I'll get full custody."
TextChildTwo == "Parental alienation. They don't want to see you."
TextCourt   == "Parental alienation syndrome. She coached the children."
TextSpaced  == "  You're   crazy. "
TextEscalated == "That never happened. You're crazy and stupid."
TextFather  == "My father went to the store."
TextWhite   == "The wall was painted white."
TextFat     == "You are FAT."
TextStupid  == "Stupid, stupid and useless."
TextCrazy   == "You're crazy."
TextCrazySmart == "You~re crazy."
TextSlide   == "He will slide into DMs."
TextSlideLower == "slide into dms"
TextMindGames == "Stop the MIND games."
TextRuin85  == "ruin your reputatxyz"
TextRuin95  == "Ruin your reputatioz"
TextStupd   == "stupd"
TextYouStupd == "you are stupd"

\* Lists of up to MaxMsgs messages of one, two or no DARVO role, for the
\* sequence detector and the forensic summary.
MaxMsgs == 4

\* Lists of up to MaxScored messages whose scores reach every risk threshold.
MaxScored == 3

\* Lists of up to MaxRepeated messages analysed repeatedly while the wall
\* clock runs from 0 to MaxClock.
MaxRepeated == 2

\* The last day the wall clock reaches: the Monday after day 0.
MaxClock == 7

\* The number of times one analysis is repeated.
MaxRuns == 2

\* Lists of up to MaxTimed messages spread over four weeks.
MaxTimed == 3

\* Lists of up to MaxMatched messages for the document matcher.
MaxMatched == 2

\* Lists of up to MaxMalformed messages, some with a bad field.
MaxMalformed == 2

\* The messages of a list handed to the pattern engine.
MaxEngine == 2

SequenceEnv ==
  [name |-> "sequence",
   messages |-> { Msg(TextHello, "Victim", None),
                  Msg(TextDeny, "Abuser", datetime(0)),
                  Msg(TextAttack, "Abuser", datetime(1)),
                  Msg(TextReverse, "Abuser", datetime(8)),
                  Msg(TextDenyAttack, "Abuser", datetime(9)) },
   documents |-> { TextDocument },
   maxLen |-> MaxMsgs,
   maxClock |-> 0]

SeverityEnv ==
  [name |-> "severity",
   messages |-> { Msg(TextScore1, "Abuser", None),
                  Msg(TextCustody, "Abuser", None),
                  Msg(TextScore15, "Abuser", None),
                  Msg(TextScore25, "Abuser", None),
                  Msg(TextChild, "Abuser", None),
                  Msg(TextChildTwo, "Abuser", None),
                  Msg(TextCourt, "Abuser", None) },
   documents |-> { TextCustody },
   maxLen |-> MaxScored,
   maxClock |-> 0]

RepeatEnv ==
  [name |-> "repeat",
   messages |-> { Msg(TextHello, "Victim", None),
                  Msg(TextSpaced, "Abuser", datetime(0)),
                  Msg(TextAttack, "Other", datetime(8)) },
   documents |-> { TextDocument, TextHello },
   maxLen |-> MaxRepeated,
   maxClock |-> MaxClock]

\* Day 0 is a Monday.
TimelineEnv ==
  [name |-> "timeline",
   messages |-> { Msg(TextAttack, "Abuser", None),
                  Msg(TextHello, "Victim", datetime(0)),
                  Msg(TextEscalated, "Abuser", datetime(6)),
                  Msg(TextAttack, "Abuser", datetime(7)),
                  Msg(TextAttack, "Abuser", datetime(19)),
                  Msg(TextEscalated, "Abuser", datetime(20)) },
   documents |-> { TextDocument },
   maxLen |-> MaxTimed,
   maxClock |-> 0]

MatcherEnv ==
  [name |-> "matcher",
   messages |-> { Msg(TextFather, "Victim", None),
                  Msg(TextWhite, "Victim", None),
                  Msg(TextFat, "Abuser", datetime(8)),
                  Msg(TextStupid, "Abuser", datetime(0)),
                  Msg(TextCrazy, "Abuser", None),
                  Msg(TextCrazySmart, "Abuser", datetime(0)) },
   documents |-> { TextCrazySmart },
   maxLen |-> MaxMatched,
   maxClock |-> 0]

\* A message without text field, one whose text is None and two whose
\* timestamp is a string that is no point in time, next to a sound one.
MalformedEnv ==
  [name |-> "malformed",
   messages |-> { [sender |-> "Abuser", timestamp |-> None, platform |-> "test"],
                  Msg(NoneText, "Abuser", None),
                  Msg(TextHello, "Victim", Malformed),
                  Msg(TextDeny, "Abuser", Malformed),
                  Msg(TextAttack, "Abuser", datetime(0)) },
   documents |-> { TextDocument },
   maxLen |-> MaxMalformed,
   maxClock |-> 0]

\* Texts for the pattern engine: a keyword configured with capitals, a
\* synonym, keywords with wrong letters (similarity 0.85 and 0.95, alone and
\* inside a sentence), texts of no, one and two categories.
EngineEnv ==
  [name |-> "engine",
   messages |-> { Msg(TextHello, "Victim", None),
                  Msg(TextFat, "Abuser", None),
                  Msg(TextStupid, "Abuser", None),
                  Msg(TextSlide, "Abuser", None),
                  Msg(TextSlideLower, "Abuser", None),
                  Msg(TextMindGames, "Abuser", None),
                  Msg(TextRuin85, "Abuser", None),
                  Msg(TextRuin95, "Abuser", None),
                  Msg(TextStupd, "Abuser", None),
                  Msg(TextYouStupd, "Abuser", None) },
   documents |-> { TextSlide },
   maxLen |-> MaxEngine,
   maxClock |-> 0]

EnvNames ==
  { "sequence", "severity", "repeat", "timeline", "matcher", "malformed", "engine" }

Domain(e) ==
  CASE e = "sequence" -> SequenceEnv
    [] e = "severity" -> SeverityEnv
    [] e = "repeat"   -> RepeatEnv
    [] e = "timeline" -> TimelineEnv
    [] e = "matcher"  -> MatcherEnv
    [] e = "malformed" -> MalformedEnv
    [] e = "engine"   -> EngineEnv

(***************************************************************************)
(* message_normalizer.py                                                   *)
(***************************************************************************)
\* str.strip()
strip(s) ==
  LET inked == { i \in 1..Len(s) : CharAt(s, i) \notin WhiteSpace }
  IN  IF inked = {} THEN ""
      ELSE SubSeq(s, CHOOSE i \in inked : \A j \in inked : i <= j,
                     CHOOSE i \in inked : \A j \in inked : j <= i)

\* re.sub(r'\s+', ' ', text): every run of whitespace becomes one space, so a
\* whitespace character that follows another one leaves nothing.
RECURSIVE CollapseRange(_, _, _)
CollapseRange(s, lo, hi) ==
  IF lo > hi THEN ""
  ELSE IF lo = hi
  THEN IF CharAt(s, lo) \notin WhiteSpace THEN CharAt(s, lo)
       ELSE IF lo > 1 /\ CharAt(s, lo - 1) \in WhiteSpace THEN "" ELSE " "
  ELSE LET mid == (lo + hi) \div 2
       IN  CollapseRange(s, lo, mid) \o CollapseRange(s, mid + 1, hi)

collapse_whitespace(s) == CollapseRange(s, 1, Len(s))

normalize_sender(sender) == IF sender = "" THEN "Unknown" ELSE strip(sender)

\* "if not text: return ''" takes None and the empty string alike.
normalize_text(text) ==
  IF text = "" \/ text = NoneText THEN "" ELSE strip(collapse_whitespace(text))

\* A datetime is kept; anything that is neither a datetime nor a string in
\* one of the seven formats becomes None.
normalize_timestamp(ts) == IF ts.kind = "datetime" THEN ts ELSE None

\* msg['text'] = ... gives the message a text field if it had none.
normalize_message(msg) ==
  [ [k \in DOMAIN msg \cup {"text"} |-> IF k \in DOMAIN msg THEN msg[k] ELSE ""]
      EXCEPT !.sender = normalize_sender(msg.sender),
             !.text = normalize_text(get_text(msg)),
             !.timestamp = normalize_timestamp(msg.timestamp)]

normalize_messages(messages) ==
  [i \in 1..Len(messages) |-> normalize_message(messages[i])]

(***************************************************************************)
(* What each sample text matches.  The analyzers evaluate the same         *)
(* searches on the same text again in every method; the tables hold the    *)
(* outcome per text.                                                       *)
(***************************************************************************)
SampleTexts ==
  { TextHello, TextDeny, TextAttack, TextReverse, TextDenyAttack, TextDocument,
    TextScore1, TextCustody, TextScore15, TextScore25, TextChild, TextChildTwo,
    TextCourt, TextSpaced, TextEscalated, TextFather, TextWhite, TextFat, TextStupid,
    TextCrazy, TextCrazySmart, TextSlide, TextSlideLower, TextMindGames, TextRuin85,
    TextRuin95, TextStupd, TextYouStupd }

TextPool == SampleTexts \cup { normalize_text(t) : t \in SampleTexts } \cup { "" }

ScanSubcategories(subcategories, text) ==
  [s \in DOMAIN subcategories |-> ScanKeywords(subcategories[s].keywords, text)]

\* Per text, category and subcategory: the keywords the break-terminated
\* keyword loop records (text = msg.get('text', '').lower()).
KeywordHits ==
  [t \in TextPool |->
     [Deny |-> ScanSubcategories(DARVO_INDICATORS.Deny, lower(t)),
      Attack |-> ScanSubcategories(DARVO_INDICATORS.Attack, lower(t)),
      Reverse_Victim_Offender |->
         ScanSubcategories(DARVO_INDICATORS.Reverse_Victim_Offender, lower(t)),
      Institutional_DARVO |->
         ScanSubcategories(DARVO_INDICATORS.Institutional_DARVO, lower(t)),
      Child_Focused |-> ScanSubcategories(CHILD_FOCUSED_DARVO, lower(t))]]

\* Per text: whether any keyword of the category matches.
RoleHits ==
  [t \in TextPool |->
     [deny |-> AnyKeyword(DARVO_INDICATORS.Deny, lower(t)),
      attack |-> AnyKeyword(DARVO_INDICATORS.Attack, lower(t)),
      reverse |-> AnyKeyword(DARVO_INDICATORS.Reverse_Victim_Offender, lower(t)),
      child |-> AnyKeyword(CHILD_FOCUSED_DARVO, lower(t))]]

\* for keyword in keywords: if re.search(pattern, text, re.IGNORECASE): <body>
\* with no break: the indices of all the keywords that match, in order.
ScanIgnoreCase(keywords, text) ==
  SelectSeq([k \in 1..Len(keywords) |-> k],
            LAMBDA k : re_search(lower(keywords[k]), text))

\* Per text and ABUSE_INDICATORS category: the keywords that match.
AbuseHits ==
  [t \in TextPool |->
     [c \in DOMAIN ABUSE_INDICATORS |->
        ScanIgnoreCase(ABUSE_INDICATORS[c].keywords, lower(t))]]

(***************************************************************************)
(* DARVOAnalyzer: the five pattern detectors.                              *)
(***************************************************************************)
\* Child-related patterns always high severity (the instance's "severity").
ChildInstanceSeverity == 5

\* category_scores["child_focused"] += 5
ChildScore == 5

Names(subcategories) == { subcategories[s].name : s \in DOMAIN subcategories }

IndexOf(subcategories, name) ==
  CHOOSE s \in DOMAIN subcategories : subcategories[s].name = name

\* {"<subcategory>": {"count": 0, "instances": []}, ...}
EmptyCounts(subcategories) ==
  [n \in Names(subcategories) |-> [count |-> 0, instances |-> << >>]]

Instance(msg, keyword, severity) ==
  [keyword |-> keyword,
   text |-> Prefix(get_text(msg), 200),
   sender |-> msg.sender,
   timestamp |-> IF Truthy(msg.timestamp) THEN isoformat(msg.timestamp) ELSE None,
   severity |-> severity]

ChildInstance(msg, keyword) ==
  [keyword |-> keyword,
   text |-> Prefix(get_text(msg), 200),
   sender |-> msg.sender,
   timestamp |-> IF Truthy(msg.timestamp) THEN isoformat(msg.timestamp) ELSE None,
   severity |-> ChildInstanceSeverity,
   high_risk |-> TRUE]

\* The body of "for msg in self.messages": for each subcategory, count += 1
\* and instances.append(...) once per keyword the keyword loop records.
RecordMessage(found, msg, category, subcategories, child) ==
  [n \in DOMAIN found |->
     LET s == IndexOf(subcategories, n)
         ks == KeywordHits[get_text(msg)][category][s]
         inst(k) == IF child THEN ChildInstance(msg, subcategories[s].keywords[k])
                    ELSE Instance(msg, subcategories[s].keywords[k],
                                  DARVO_SEVERITY_WEIGHTS[category][n])
     IN  [count |-> found[n].count + Len(ks),
          instances |-> found[n].instances \o [j \in 1..Len(ks) |-> inst(ks[j])]]]

RECURSIVE DetectFrom(_, _, _, _, _, _)
DetectFrom(found, messages, i, category, subcategories, child) ==
  IF i > Len(messages) THEN found
  ELSE DetectFrom(RecordMessage(found, messages[i], category, subcategories, child),
                  messages, i + 1, category, subcategories, child)

detect_deny_patterns(messages) ==
  DetectFrom(EmptyCounts(DARVO_INDICATORS.Deny), messages, 1,
             "Deny", DARVO_INDICATORS.Deny, FALSE)

detect_attack_patterns(messages) ==
  DetectFrom(EmptyCounts(DARVO_INDICATORS.Attack), messages, 1,
             "Attack", DARVO_INDICATORS.Attack, FALSE)

detect_reverse_patterns(messages) ==
  DetectFrom(EmptyCounts(DARVO_INDICATORS.Reverse_Victim_Offender), messages, 1,
             "Reverse_Victim_Offender", DARVO_INDICATORS.Reverse_Victim_Offender, FALSE)

detect_institutional_patterns(messages) ==
  DetectFrom(EmptyCounts(DARVO_INDICATORS.Institutional_DARVO), messages, 1,
             "Institutional_DARVO", DARVO_INDICATORS.Institutional_DARVO, FALSE)

detect_child_focused_patterns(messages) ==
  DetectFrom(EmptyCounts(CHILD_FOCUSED_DARVO), messages, 1,
             "Child_Focused", CHILD_FOCUSED_DARVO, TRUE)

(***************************************************************************)
(* DARVOAnalyzer: compound (ordered) patterns.                             *)
(***************************************************************************)
\* The classifications list of one message: deny, attack, reverse, in that
\* order, each present when any keyword of its category matches.
Classifications(msg) ==
  LET r == RoleHits[get_text(msg)]
  IN  (IF r.deny THEN << "deny" >> ELSE << >>)
      \o (IF r.attack THEN << "attack" >> ELSE << >>)
      \o (IF r.reverse THEN << "reverse" >> ELSE << >>)

Classify(messages) ==
  [i \in 1..Len(messages) |->
     [classifications |-> Classifications(messages[i]), message |-> messages[i]]]

Contains(list, x) == \E j \in DOMAIN list : list[j] = x

\* pattern_index after the messages window[j..] have been walked.
RECURSIVE WalkWindow(_, _, _, _)
WalkWindow(window, target_pattern, pattern_index, j) ==
  IF j > Len(window) THEN pattern_index
  ELSE WalkWindow(window, target_pattern,
                  IF /\ pattern_index < Len(target_pattern)
                     /\ Contains(window[j].classifications, target_pattern[pattern_index + 1])
                  THEN pattern_index + 1 ELSE pattern_index,
                  j + 1)

\* The walk that looks for every role anywhere in the window, in any order.
UnorderedWindowCheck(window, target_pattern) ==
  \A r \in DOMAIN target_pattern :
     \E j \in DOMAIN window : Contains(window[j].classifications, target_pattern[r])

check_pattern_in_window(window, target_pattern) ==
  WalkWindow(window, target_pattern, 0, 1) = Len(target_pattern)

Min(a, b) == IF a < b THEN a ELSE b

\* message_classifications[i:i + window_size], i counted from 0.
Window(classified, i, window_size) ==
  SubSeq(classified, i + 1, Min(i + window_size, Len(classified)))

\* range(len(message_classifications) - len(target_pattern) + 1)
Offsets(n, target_pattern) == 0..(n - Len(target_pattern))

\* A match that records every message of its window.
CompoundMatchWholeWindow(pattern_def, window) ==
  [pattern_type |-> pattern_def.name,
   description |-> pattern_def.description,
   messages |-> [j \in 1..Len(window) |-> window[j].message],
   severity |-> Len(pattern_def.pattern) * 2,
   start_time |-> window[1].message.timestamp,
   end_time |-> window[Len(window)].message.timestamp]

CompoundMatch(pattern_def, window) ==
  [pattern_type |-> pattern_def.name,
   description |-> pattern_def.description,
   messages |-> LET kept == SelectSeq(window, LAMBDA w : Len(w.classifications) > 0)
                IN  [j \in 1..Len(kept) |-> kept[j].message],
   severity |-> Len(pattern_def.pattern) * 2,
   start_time |-> window[1].message.timestamp,
   end_time |-> window[Len(window)].message.timestamp]

\* The offsets walked up to the first match only: one match per pattern.
RECURSIVE FirstMatchFrom(_, _, _)
FirstMatchFrom(pattern_def, classified, i) ==
  IF i > Len(classified) - Len(pattern_def.pattern) THEN << >>
  ELSE LET window == Window(classified, i, pattern_def.window_messages)
       IN  IF check_pattern_in_window(window, pattern_def.pattern)
           THEN << CompoundMatch(pattern_def, window) >>
           ELSE FirstMatchFrom(pattern_def, classified, i + 1)

RECURSIVE MatchesFrom(_, _, _)
MatchesFrom(pattern_def, classified, i) ==
  IF i > Len(classified) - Len(pattern_def.pattern) THEN << >>
  ELSE LET window == Window(classified, i, pattern_def.window_messages)
       IN  (IF check_pattern_in_window(window, pattern_def.pattern)
            THEN << CompoundMatch(pattern_def, window) >> ELSE << >>)
           \o MatchesFrom(pattern_def, classified, i + 1)

RECURSIVE PatternsFrom(_, _)
PatternsFrom(classified, p) ==
  IF p > Len(DARVO_COMPOUND_PATTERNS) THEN << >>
  ELSE MatchesFrom(DARVO_COMPOUND_PATTERNS[p], classified, 0)
       \o PatternsFrom(classified, p + 1)

detect_compound_patterns(messages) ==
  IF Len(messages) < 2 THEN << >>
  ELSE PatternsFrom(Classify(messages), 1)

(***************************************************************************)
(* DARVOAnalyzer: severity.                                                *)
(***************************************************************************)
RECURSIVE SumOver(_, _)
SumOver(f, S) ==
  IF S = {} THEN 0
  ELSE LET x == CHOOSE y \in S : TRUE IN f[x] + SumOver(f, S \ {x})

\* A scorer that adds one per hit whatever the subcategory's weight.
MessageScoreUnweighted(msg, category, subcategories) ==
  SumOver([s \in DOMAIN subcategories |-> Len(KeywordHits[get_text(msg)][category][s])],
          DOMAIN subcategories)

\* What one message adds to a category: the subcategory's weight once per
\* keyword the keyword loop records.
MessageScore(msg, category, subcategories) ==
  SumOver([s \in DOMAIN subcategories |->
             Len(KeywordHits[get_text(msg)][category][s])
               * DARVO_SEVERITY_WEIGHTS[category][subcategories[s].name]],
          DOMAIN subcategories)

\* The child-focused score added once per message, not once per subcategory.
MessageChildScoreOnce(msg) ==
  IF \E s \in DOMAIN CHILD_FOCUSED_DARVO : Len(KeywordHits[get_text(msg)].Child_Focused[s]) > 0
  THEN ChildScore ELSE 0

MessageChildScore(msg) ==
  SumOver([s \in DOMAIN CHILD_FOCUSED_DARVO |->
             Len(KeywordHits[get_text(msg)].Child_Focused[s]) * ChildScore],
          DOMAIN CHILD_FOCUSED_DARVO)

ZeroScores ==
  [total_score |-> 0,
   category_scores |->
     [deny |-> 0, attack |-> 0, reverse |-> 0, institutional |-> 0, child_focused |-> 0]]

\* The body of "for msg in self.messages" in _calculate_severity.
ScoreMessage(acc, msg) ==
  LET d == MessageScore(msg, "Deny", DARVO_INDICATORS.Deny)
      a == MessageScore(msg, "Attack", DARVO_INDICATORS.Attack)
      r == MessageScore(msg, "Reverse_Victim_Offender",
                        DARVO_INDICATORS.Reverse_Victim_Offender)
      i == MessageScore(msg, "Institutional_DARVO", DARVO_INDICATORS.Institutional_DARVO)
      c == MessageChildScore(msg)
  IN  [total_score |-> acc.total_score + d + a + r + i + c,
       category_scores |->
         [deny |-> acc.category_scores.deny + d,
          attack |-> acc.category_scores.attack + a,
          reverse |-> acc.category_scores.reverse + r,
          institutional |-> acc.category_scores.institutional + i,
          child_focused |-> acc.category_scores.child_focused + c]]

RECURSIVE ScoreFrom(_, _, _)
ScoreFrom(acc, messages, i) ==
  IF i > Len(messages) THEN acc
  ELSE ScoreFrom(ScoreMessage(acc, messages[i]), messages, i + 1)

\* The thresholds alone, without the child-focused override.
ThresholdLevel(total_score) ==
  IF total_score > 50 THEN "critical"
  ELSE IF total_score > 30 THEN "high"
  ELSE IF total_score > 15 THEN "medium"
  ELSE "low"

RiskNoOverride(total_score, child_focused) == ThresholdLevel(total_score)

RiskInclusive(total_score, child_focused) ==
  IF child_focused > 0 \/ total_score >= 50 THEN "critical"
  ELSE IF total_score >= 30 THEN "high"
  ELSE IF total_score >= 15 THEN "medium"
  ELSE "low"

\* An override that takes more than one child-focused hit.
RiskOverrideAboveFive(total_score, child_focused) ==
  IF child_focused > ChildScore THEN "critical" ELSE ThresholdLevel(total_score)

RiskLevel(total_score, child_focused) ==
  IF child_focused > 0 THEN "critical" ELSE ThresholdLevel(total_score)

\* The f-string of the risk level, with the score in it.
interpret_severity(risk_level, score) == [template |-> risk_level, score |-> score]

calculate_severity(messages) ==
  LET acc == ScoreFrom(ZeroScores, messages, 1)
      risk_level == RiskLevel(acc.total_score, acc.category_scores.child_focused)
  IN  [total_score |-> acc.total_score,
       category_scores |-> acc.category_scores,
       risk_level |-> risk_level,
       interpretation |-> interpret_severity(risk_level, acc.total_score)]

(***************************************************************************)
(* DARVOAnalyzer: timeline.                                                *)
(***************************************************************************)
\* timestamp - timedelta(days=timestamp.weekday()), as strftime('%Y-%m-%d')
\* prints it: the Monday of the timestamp's week.
WeekKey(ts) == ts.day - (ts.day % 7)

BoolCount(b) == IF b THEN 1 ELSE 0

\* time_windows after one more message: the defaultdict entry of the week
\* comes into being when one of its counts is first incremented.
CountMessage(time_windows, msg) ==
  LET r == RoleHits[get_text(msg)]
      week_key == WeekKey(msg.timestamp)
      before == IF week_key \in DOMAIN time_windows THEN time_windows[week_key]
                ELSE [deny_count |-> 0, attack_count |-> 0, reverse_count |-> 0,
                      total_score |-> 0]
      after == [deny_count |-> before.deny_count + BoolCount(r.deny),
                attack_count |-> before.attack_count + BoolCount(r.attack),
                reverse_count |-> before.reverse_count + BoolCount(r.reverse),
                total_score |-> before.total_score]
  IN  IF ~Truthy(msg.timestamp) \/ ~(r.deny \/ r.attack \/ r.reverse) THEN time_windows
      ELSE [k \in DOMAIN time_windows \cup {week_key} |->
              IF k = week_key THEN after ELSE time_windows[k]]

RECURSIVE WindowsFrom(_, _, _)
WindowsFrom(time_windows, messages, i) ==
  IF i > Len(messages) THEN time_windows
  ELSE WindowsFrom(CountMessage(time_windows, messages[i]), messages, i + 1)

EmptyDict == [k \in {} |-> 0]

SetMin(S) == CHOOSE x \in S : \A y \in S : x <= y

SetMax(S) == CHOOSE x \in S : \A y \in S : y <= x

RoleTotal(counts) == counts.deny_count + counts.attack_count + counts.reverse_count

analyze_timeline(messages) ==
  IF Len(messages) = 0 \/ ~(\E i \in DOMAIN messages : Truthy(messages[i].timestamp))
  THEN [timeline_available |-> FALSE]
  ELSE LET time_windows == WindowsFrom(EmptyDict, messages, 1)
           sorted_weeks == DOMAIN time_windows
           \* late_total > early_total * 1.5
           escalation_detected ==
             /\ Cardinality(sorted_weeks) >= 2
             /\ 2 * RoleTotal(time_windows[SetMax(sorted_weeks)])
                  > 3 * RoleTotal(time_windows[SetMin(sorted_weeks)])
       IN  [timeline_available |-> TRUE,
            time_windows |-> time_windows,
            escalation_detected |-> escalation_detected,
            total_weeks |-> Cardinality(sorted_weeks)]

(***************************************************************************)
(* DARVOAnalyzer: forensic summary.                                        *)
(***************************************************************************)
\* Recommendations that end with the monitoring action in every case.
RecommendationsAlwaysMonitoring(full_pattern, child_risk) ==
  (IF full_pattern
   THEN << "Document all communications for legal proceedings",
           "Consider consultation with domestic violence advocate" >>
   ELSE << >>)
  \o (IF child_risk
      THEN << "URGENT: Child-focused manipulation detected - consider immediate protective measures",
              "Document all child-related statements for custody proceedings",
              "Consult with family law attorney regarding parental alienation concerns" >>
      ELSE << >>)
  \o << "Continue monitoring communications for patterns" >>

generate_recommendations(full_pattern, child_risk) ==
  LET recommendations ==
        (IF full_pattern
         THEN << "Document all communications for legal proceedings",
                 "Consider consultation with domestic violence advocate" >>
         ELSE << >>)
        \o (IF child_risk
            THEN << "URGENT: Child-focused manipulation detected - consider immediate protective measures",
                    "Document all child-related statements for custody proceedings",
                    "Consult with family law attorney regarding parental alienation concerns" >>
            ELSE << >>)
  IN  IF Len(recommendations) = 0
      THEN << "Continue monitoring communications for patterns" >>
      ELSE recommendations

\* The set of the texts, not of the indices, of the messages of the role.
MessagesWithText(messages, role) ==
  { get_text(messages[i]) : i \in { j \in DOMAIN messages : RoleHits[get_text(messages[j])][role] } }

\* The set of indices of the messages in which any keyword of the role matches.
MessagesWith(messages, role) ==
  { i \in DOMAIN messages : RoleHits[get_text(messages[i])][role] }

\* The summary, given whether the full pattern is present.
SummaryOf(messages, now, full_pattern_present) ==
  LET total_deny == Cardinality(MessagesWith(messages, "deny"))
      total_attack == Cardinality(MessagesWith(messages, "attack"))
      total_reverse == Cardinality(MessagesWith(messages, "reverse"))
      total_child_focused == Cardinality(MessagesWith(messages, "child"))
  IN  [analysis_date |-> isoformat(datetime(now)),
       total_messages_analyzed |-> Len(messages),
       darvo_components_present |->
         [deny |-> total_deny > 0, attack |-> total_attack > 0,
          reverse |-> total_reverse > 0],
       full_darvo_pattern_detected |-> full_pattern_present,
       instance_counts |->
         [deny_instances |-> total_deny,
          attack_instances |-> total_attack,
          reverse_instances |-> total_reverse,
          child_focused_instances |-> total_child_focused],
       high_risk_indicators |-> total_child_focused > 0,
       recommended_actions |->
         generate_recommendations(full_pattern_present, total_child_focused > 0)]

\* A summary that takes the ordered compound detector's full sequence for the
\* full pattern.
ForensicSummaryOrdered(messages, now) ==
  SummaryOf(messages, now,
            \E j \in DOMAIN detect_compound_patterns(messages) :
               detect_compound_patterns(messages)[j].pattern_type = "full_darvo_sequence")

\* A summary that reports the full pattern only when one message carries the
\* three roles.
ForensicSummarySameMessage(messages, now) ==
  SummaryOf(messages, now,
            \E i \in DOMAIN messages :
               /\ RoleHits[get_text(messages[i])].deny
               /\ RoleHits[get_text(messages[i])].attack
               /\ RoleHits[get_text(messages[i])].reverse)

generate_forensic_summary(messages, now) ==
  SummaryOf(messages, now,
            /\ Cardinality(MessagesWith(messages, "deny")) > 0
            /\ Cardinality(MessagesWith(messages, "attack")) > 0
            /\ Cardinality(MessagesWith(messages, "reverse")) > 0)

(***************************************************************************)
(* DARVOAnalyzer: the analysis.                                            *)
(***************************************************************************)
\* The exceptions a call can end with instead of returning.
AttributeError == [raised |-> "AttributeError"]

TypeError == [raised |-> "TypeError"]

Raised(r) == "raised" \in DOMAIN r

\* Where the methods fail on a message: msg.get('text', '').lower() when the
\* text is None; timestamp.isoformat() in a detector or, at the latest,
\* timestamp.weekday() in _analyze_timeline when the timestamp is a string.
ConversationRaises(messages) ==
  \E i \in DOMAIN messages :
     \/ get_text(messages[i]) = NoneText
     \/ messages[i].timestamp.kind = "str"

analyze_conversation(messages, now) ==
  IF ConversationRaises(messages) THEN AttributeError
  ELSE
  [deny_patterns |-> detect_deny_patterns(messages),
   attack_patterns |-> detect_attack_patterns(messages),
   reverse_patterns |-> detect_reverse_patterns(messages),
   institutional_patterns |-> detect_institutional_patterns(messages),
   child_focused_patterns |-> detect_child_focused_patterns(messages),
   compound_patterns |-> detect_compound_patterns(messages),
   severity_assessment |-> calculate_severity(messages),
   timeline_analysis |-> analyze_timeline(messages),
   forensic_summary |-> generate_forensic_summary(messages, now)]

\* The one message _analyze_document turns the text into.
DocumentMessages(text, now) ==
  << [text |-> text, sender |-> "Document", timestamp |-> datetime(now),
      platform |-> "document"] >>

\* An empty structure without its compound_patterns entry.
EmptyResultShort(now) ==
  [deny_patterns |-> EmptyDict,
   attack_patterns |-> EmptyDict,
   reverse_patterns |-> EmptyDict,
   institutional_patterns |-> EmptyDict,
   child_focused_patterns |-> EmptyDict,
   severity_assessment |->
     [total_score |-> 0,
      category_scores |-> EmptyDict,
      risk_level |-> "low",
      interpretation |-> [template |-> "No data available for analysis.", score |-> 0]],
   timeline_analysis |-> [timeline_available |-> FALSE],
   forensic_summary |->
     [analysis_date |-> isoformat(datetime(now)),
      total_messages_analyzed |-> 0,
      darvo_components_present |-> [deny |-> FALSE, attack |-> FALSE, reverse |-> FALSE],
      full_darvo_pattern_detected |-> FALSE,
      instance_counts |->
        [deny_instances |-> 0, attack_instances |-> 0, reverse_instances |-> 0,
         child_focused_instances |-> 0],
      high_risk_indicators |-> FALSE,
      recommended_actions |-> << >>]]

\* The structure analyze_darvo_patterns returns for empty input.
EmptyResult(now) ==
  [deny_patterns |-> EmptyDict,
   attack_patterns |-> EmptyDict,
   reverse_patterns |-> EmptyDict,
   institutional_patterns |-> EmptyDict,
   child_focused_patterns |-> EmptyDict,
   compound_patterns |-> << >>,
   severity_assessment |->
     [total_score |-> 0,
      category_scores |-> EmptyDict,
      risk_level |-> "low",
      interpretation |-> [template |-> "No data available for analysis.", score |-> 0]],
   timeline_analysis |-> [timeline_available |-> FALSE],
   forensic_summary |->
     [analysis_date |-> isoformat(datetime(now)),
      total_messages_analyzed |-> 0,
      darvo_components_present |-> [deny |-> FALSE, attack |-> FALSE, reverse |-> FALSE],
      full_darvo_pattern_detected |-> FALSE,
      instance_counts |->
        [deny_instances |-> 0, attack_instances |-> 0, reverse_instances |-> 0,
         child_focused_instances |-> 0],
      high_risk_indicators |-> FALSE,
      recommended_actions |-> << >>]]

\* An analysis that uses its messages up.
MessagesConsumed(self, now) == << >>

\* self.messages after analyze_darvo_patterns: _analyze_document replaces it.
MessagesAfter(self, now) ==
  IF Len(self.messages) > 0 THEN self.messages
  ELSE IF self.text # "" THEN DocumentMessages(self.text, now)
  ELSE self.messages

\* The analysis without the "elif self.text" test: no messages means a document.
AnalyzeWithoutTextTest(self, now) ==
  IF Len(self.messages) > 0 THEN analyze_conversation(self.messages, now)
  ELSE analyze_conversation(DocumentMessages(self.text, now), now)

analyze_darvo_patterns(self, now) ==
  IF Len(self.messages) > 0 THEN analyze_conversation(self.messages, now)
  ELSE IF self.text # "" THEN analyze_conversation(DocumentMessages(self.text, now), now)
  ELSE EmptyResult(now)

(***************************************************************************)
(* ConversationAnalyzer.                                                   *)
(***************************************************************************)
\* datetime.min, in days from day 0.
DatetimeMin == -738885

\* key=lambda x: x.get('timestamp') or datetime.min
SortKey(msg) == IF Truthy(msg.timestamp) THEN msg.timestamp.day ELSE DatetimeMin

\* sorted() is stable: a message goes after those whose key is not greater.
RECURSIVE InsertByKey(_, _)
InsertByKey(sorted, msg) ==
  IF Len(sorted) = 0 THEN << msg >>
  ELSE IF SortKey(sorted[Len(sorted)]) <= SortKey(msg) THEN Append(sorted, msg)
  ELSE Append(InsertByKey(SubSeq(sorted, 1, Len(sorted) - 1), msg), sorted[Len(sorted)])

RECURSIVE SortedFrom(_, _, _)
SortedFrom(sorted, messages, i) ==
  IF i > Len(messages) THEN sorted
  ELSE SortedFrom(InsertByKey(sorted, messages[i]), messages, i + 1)

sorted_by_timestamp(messages) == SortedFrom(<< >>, messages, 1)

\* text[:100] + '...' if len(text) > 100 else text
Excerpt(text) == IF Len(text) > 100 THEN SubSeq(text, 1, 100) \o "..." ELSE text

CategoryNames == { ABUSE_INDICATORS[c].category : c \in DOMAIN ABUSE_INDICATORS }

CategoryIndex(name) == CHOOSE c \in DOMAIN ABUSE_INDICATORS : ABUSE_INDICATORS[c].category = name

\* The entries one category collects over the messages, message by message
\* and keyword by keyword.
RECURSIVE CategoryFrom(_, _, _, _)
CategoryFrom(entry, messages, i, c) ==
  IF i > Len(messages) THEN entry
  ELSE LET msg == messages[i]
           ks == AbuseHits[get_text(msg)][c]
           kws == ABUSE_INDICATORS[c].keywords
       IN  CategoryFrom(
             [keywords |-> entry.keywords \o [j \in 1..Len(ks) |-> kws[ks[j]]],
              count |-> entry.count + Len(ks),
              senders |-> IF Len(ks) > 0 THEN entry.senders \cup {msg.sender}
                          ELSE entry.senders,
              messages |-> entry.messages \o
                 [j \in 1..Len(ks) |->
                    [timestamp |-> msg.timestamp, sender |-> msg.sender,
                     text |-> Excerpt(get_text(msg)), keyword |-> kws[ks[j]]]]],
             messages, i + 1, c)

\* The orders the iteration of a set of strings can have (it follows the
\* strings' hashes, which differ from process to process).
Orderings(S) ==
  { q \in [1..Cardinality(S) -> S] : \A x \in S : \E j \in DOMAIN q : q[j] = x }

\* A scan that creates every category's entry before it looks at a message.
ScanAllCategories(messages) ==
  [n \in CategoryNames |->
     CategoryFrom([keywords |-> << >>, count |-> 0, senders |-> {}, messages |-> << >>],
                  messages, 1, CategoryIndex(n))]

\* self.abuse_patterns before the sets of senders are turned into lists: a
\* category has an entry once one of its keywords has matched a message.
ScanCategories(messages) ==
  LET all == ScanAllCategories(messages)
  IN  [n \in { m \in CategoryNames : all[m].count > 0 } |-> all[n]]

\* The results analyze_abuse_patterns can return: list(senders) gives each
\* category's set of senders in one of the orders its iteration can have.
analyze_abuse_patterns(messages) ==
  LET found == ScanCategories(messages)
      everyone == UNION { found[n].senders : n \in DOMAIN found }
  IN  { [n \in DOMAIN found |->
           [found[n] EXCEPT
              !.senders = SelectSeq(order[n], LAMBDA x : x \in found[n].senders)]] :
          order \in [DOMAIN found -> Orderings(everyone)] }

(***************************************************************************)
(* analyze.py: the document matcher analyze_text.                          *)
(***************************************************************************)
ABUSE_SYNONYMS ==
  << [syn |-> "gaslighting", syn_list |-> <<
        "crazy-making", "mind games", "tripping", "confuse", "you're crazy",
        "you're imagining things", "you're paranoid" >>],
     [syn |-> "threaten", syn_list |-> <<
        "warn", "promise harm", "intimidate", "menace", "bully", "scare", "coerce",
        "blackmail" >>],
     [syn |-> "money", syn_list |-> <<
        "cash", "venmo", "bank", "finesse", "allowance", "paycheck", "salary", "income",
        "funds", "debt", "loan" >>],
     [syn |-> "isolate", syn_list |-> <<
        "cut off", "block", "ghost", "no contact", "keep away", "ban", "forbid",
        "separate", "alienate" >>],
     [syn |-> "emotional abuse", syn_list |-> <<
        "put-downs", "insult", "mock", "humiliate", "demean", "shame", "guilt trip",
        "belittle", "criticize" >>],
     [syn |-> "sexual coercion", syn_list |-> <<
        "pressure for sex", "forced intimacy", "unwanted touch", "sexual assault",
        "revenge porn", "nudes", "sext" >>],
     [syn |-> "digital abuse", syn_list |-> <<
        "spyware", "track", "monitor", "hack", "impersonate", "catfish", "dox",
        "cyberbully", "harass online" >>] >>

\* text.replace(...): the typographic quotes become straight ones.
StraightOf ==
  [c \in {LeftSingleQuote, RightSingleQuote, LeftDoubleQuote, RightDoubleQuote} |->
     IF c \in {LeftSingleQuote, RightSingleQuote} THEN "'" ELSE "\""]

RECURSIVE ReplaceRange(_, _, _)
ReplaceRange(s, lo, hi) ==
  IF lo > hi THEN ""
  ELSE IF lo = hi
  THEN LET c == CharAt(s, lo) IN IF c \in DOMAIN StraightOf THEN StraightOf[c] ELSE c
  ELSE LET mid == (lo + hi) \div 2
       IN  ReplaceRange(s, lo, mid) \o ReplaceRange(s, mid + 1, hi)

\* normalize_text of analyze.py
replace_smart_quotes(text) == ReplaceRange(text, 1, Len(text))

\* context_window = 40
context_window == 40

\* Concatenation of a sequence of sequences.
RECURSIVE Flatten(_)
Flatten(seqs) ==
  IF Len(seqs) = 0 THEN << >>
  ELSE Flatten(SubSeq(seqs, 1, Len(seqs) - 1)) \o seqs[Len(seqs)]

\* re.finditer(r'\b' + re.escape(keyword) + r'\b', text, re.IGNORECASE): the
\* starts of the matches from left to right, each search resuming where the
\* previous match ended.  Both arguments are in lower case here.
RECURSIVE finditer(_, _, _)
finditer(keyword, lower_text, from) ==
  LET starts == { i \in from..(Len(lower_text) - Len(keyword) + 1) :
                    /\ SubSeq(lower_text, i, i + Len(keyword) - 1) = keyword
                    /\ WordBoundary(lower_text, i)
                    /\ WordBoundary(lower_text, i + Len(keyword)) }
  IN  IF starts = {} THEN << >>
      ELSE LET first == CHOOSE i \in starts : \A j \in starts : i <= j
           IN  << first >> \o finditer(keyword, lower_text, first + Len(keyword))

\* difflib.SequenceMatcher: the length of the block a[i..] = b[j..] inside
\* a[..ahi] and b[..bhi].
RECURSIVE BlockLength(_, _, _, _, _, _)
BlockLength(a, b, i, j, ahi, bhi) ==
  IF i > ahi \/ j > bhi THEN 0
  ELSE IF CharAt(a, i) # CharAt(b, j) THEN 0
  ELSE 1 + BlockLength(a, b, i + 1, j + 1, ahi, bhi)

\* find_longest_match(alo, ahi, blo, bhi): of the longest blocks the one that
\* starts earliest in a and, of those, earliest in b.
find_longest_match(a, b, alo, ahi, blo, bhi) ==
  LET blocks == { << i, j, BlockLength(a, b, i, j, ahi, bhi) >> :
                     i \in alo..ahi, j \in blo..bhi }
  IN  CHOOSE m \in blocks :
         \A o \in blocks :
            \/ m[3] > o[3]
            \/ m[3] = o[3] /\ m[1] < o[1]
            \/ m[3] = o[3] /\ m[1] = o[1] /\ m[2] <= o[2]

\* get_matching_blocks(): the sizes of the blocks, summed; the longest block
\* first, then the pieces to its left and to its right.
RECURSIVE MatchingSize(_, _, _, _, _, _)
MatchingSize(a, b, alo, ahi, blo, bhi) ==
  IF alo > ahi \/ blo > bhi THEN 0
  ELSE LET m == find_longest_match(a, b, alo, ahi, blo, bhi)
       IN  IF m[3] = 0 THEN 0
           ELSE m[3] + MatchingSize(a, b, alo, m[1] - 1, blo, m[2] - 1)
                     + MatchingSize(a, b, m[1] + m[3], ahi, m[2] + m[3], bhi)

\* An upper bound on the matching size that is cheap to compute: a character
\* of b that a does not contain is in no block.
SharedSize(a, b) ==
  LET inA == { CharAt(a, i) : i \in 1..Len(a) }
  IN  Cardinality({ j \in 1..Len(b) : CharAt(b, j) \in inA })

\* SequenceMatcher(None, a, b).ratio() > 0.85, where ratio() is
\* 2.0 * matches / (len(a) + len(b)): in integers, 40 * matches > 17 * length.
ratio_above_threshold(a, b) ==
  /\ 40 * SharedSize(a, b) > 17 * (Len(a) + Len(b))
  /\ 40 * MatchingSize(a, b, 1, Len(a), 1, Len(b)) > 17 * (Len(a) + Len(b))

\* The fuzzy loop: the first window of the keyword's length whose ratio is
\* above the threshold, then break.
FuzzyStarts(keyword, lower_text) ==
  LET starts == { i \in 1..(Len(lower_text) - Len(keyword) + 1) :
                    ratio_above_threshold(SubSeq(lower_text, i, i + Len(keyword) - 1),
                                          keyword) }
  IN  IF starts = {} THEN << >>
      ELSE << CHOOSE i \in starts : \A j \in starts : i <= j >>

Match(indicator, type, start) ==
  [indicator |-> indicator, type |-> type, start |-> start,
   end |-> start + Len(indicator) - 1]

\* The matches of one synonym list, list member by list member.
SynonymMatches(syn_list, lower_text) ==
  Flatten([n \in DOMAIN syn_list |->
             LET found == finditer(lower(syn_list[n]), lower_text, 1)
             IN  [o \in DOMAIN found |-> Match(syn_list[n], "synonym", found[o])]])

\* The body of "for keyword in keywords": the exact matches, the fuzzy match
\* and the matches of the synonyms listed under the keyword.
KeywordMatches(keyword, lower_text) ==
  LET exact == finditer(lower(keyword), lower_text, 1)
      fuzzy == FuzzyStarts(lower(keyword), lower_text)
  IN  [o \in DOMAIN exact |-> Match(keyword, "exact", exact[o])]
      \o [o \in DOMAIN fuzzy |-> Match(keyword, "fuzzy", fuzzy[o])]
      \o Flatten([n \in DOMAIN ABUSE_SYNONYMS |->
                    IF lower(keyword) = lower(ABUSE_SYNONYMS[n].syn)
                    THEN SynonymMatches(ABUSE_SYNONYMS[n].syn_list, lower_text)
                    ELSE << >>])

\* The texts analyze_text is run on.
MatcherTexts == { get_text(m) : m \in MatcherEnv.messages \cup EngineEnv.messages }

\* Per text and category: the matches in the order the loops find them.
TextMatches ==
  [t \in MatcherTexts |->
     [c \in DOMAIN ABUSE_INDICATORS |->
        LET lower_text == lower(replace_smart_quotes(t))
        IN  Flatten([k \in DOMAIN ABUSE_INDICATORS[c].keywords |->
                       KeywordMatches(ABUSE_INDICATORS[c].keywords[k], lower_text)])]]

\* The entry findings.append() adds (receiver, id, file, line_number and
\* page_number, which no message of the samples carries, are left out).
Finding(msg, text, c, match) ==
  [category |-> ABUSE_INDICATORS[c].category,
   indicator |-> match.indicator,
   type |-> match.type,
   context |-> SubSeq(text,
                      IF match.start - context_window < 1 THEN 1
                      ELSE match.start - context_window,
                      IF match.end + context_window > Len(text) THEN Len(text)
                      ELSE match.end + context_window),
   full_message |-> text,
   sender |-> msg.sender,
   timestamp |-> msg.timestamp]

MessageFindings(msg) ==
  LET text == replace_smart_quotes(get_text(msg))
  IN  Flatten([c \in DOMAIN ABUSE_INDICATORS |->
                 [o \in DOMAIN TextMatches[get_text(msg)][c] |->
                    Finding(msg, text, c, TextMatches[get_text(msg)][c][o])]])

\* key=lambda x: x.get('timestamp') or '': the key of a finding without
\* timestamp is the empty string, and Python orders no string against a
\* datetime.
KeyIsDatetime(finding) == finding.timestamp.kind = "datetime"

SortRaises(fs) ==
  \E i, j \in DOMAIN fs : KeyIsDatetime(fs[i]) /\ ~KeyIsDatetime(fs[j])

\* list.sort() is stable: a finding goes after those whose key is not greater.
RECURSIVE InsertFinding(_, _)
InsertFinding(sorted, finding) ==
  IF Len(sorted) = 0 THEN << finding >>
  ELSE IF sorted[Len(sorted)].timestamp.day <= finding.timestamp.day
  THEN Append(sorted, finding)
  ELSE Append(InsertFinding(SubSeq(sorted, 1, Len(sorted) - 1), finding),
              sorted[Len(sorted)])

RECURSIVE SortFindingsFrom(_, _, _)
SortFindingsFrom(sorted, fs, i) ==
  IF i > Len(fs) THEN sorted
  ELSE SortFindingsFrom(InsertFinding(sorted, fs[i]), fs, i + 1)

\* The grouping without the escalation flag: the categories alone.
GroupFindingsOnly(sorted) ==
  LET found == { sorted[i].category : i \in DOMAIN sorted }
  IN  [n \in found |-> SelectSeq(sorted, LAMBDA f : f.category = n)]

\* results.setdefault(category, []).append(finding), and the escalation flag
\* next to the categories.
GroupFindings(sorted) ==
  LET found == { sorted[i].category : i \in DOMAIN sorted }
  IN  [n \in found \cup {"escalation_detected"} |->
         IF n = "escalation_detected"
         THEN Cardinality(found) > 2 \/ Len(sorted) > 10
         ELSE SelectSeq(sorted, LAMBDA f : f.category = n)]

analyze_text(messages) ==
  LET fs == Flatten([i \in DOMAIN messages |-> MessageFindings(messages[i])])
  IN  IF SortRaises(fs) THEN TypeError
      ELSE GroupFindings(SortFindingsFrom(<< >>, fs, 1))

(***************************************************************************)
(* ConversationAnalyzer.analyze_escalation_patterns                        *)
(***************************************************************************)
EscalationCategories == << "Threats / Intimidation", "Emotional Abuse / Degradation" >>

\* window_size = timedelta(days=7)
WindowDays == 7

\* The same loop with >= for >: a message 7 days after the window's start
\* opens the next window.
RECURSIVE MoveWindowAtBoundary(_, _)
MoveWindowAtBoundary(current_window_start, day) ==
  IF day >= current_window_start + WindowDays
  THEN MoveWindowAtBoundary(current_window_start + WindowDays, day)
  ELSE current_window_start

\* while msg['timestamp'] > current_window_start + window_size:
\*     current_window_start += window_size
RECURSIVE MoveWindow(_, _)
MoveWindow(current_window_start, day) ==
  IF day > current_window_start + WindowDays
  THEN MoveWindow(current_window_start + WindowDays, day)
  ELSE current_window_start

\* The body of "for msg in self.messages": window_counts is a defaultdict of
\* defaultdicts, so a window and a category in it exist from the first count.
CountInWindow(acc, msg) ==
  IF ~Truthy(msg.timestamp) THEN acc
  ELSE LET start == MoveWindow(acc.current_window_start, msg.timestamp.day)
           hits == [c \in DOMAIN EscalationCategories |->
                      Len(AbuseHits[get_text(msg)][CategoryIndex(EscalationCategories[c])])]
           hit == { EscalationCategories[c] : c \in { d \in DOMAIN hits : hits[d] > 0 } }
           before == IF start \in DOMAIN acc.window_counts
                     THEN acc.window_counts[start] ELSE [k \in {} |-> 0]
           after == [n \in DOMAIN before \cup hit |->
                       (IF n \in DOMAIN before THEN before[n] ELSE 0)
                       + hits[CHOOSE c \in DOMAIN hits : EscalationCategories[c] = n]]
       IN  [current_window_start |-> start,
            window_counts |->
              IF hit = {} THEN acc.window_counts
              ELSE [w \in DOMAIN acc.window_counts \cup {start} |->
                      IF w = start THEN after ELSE acc.window_counts[w]]]

RECURSIVE CountWindowsFrom(_, _, _)
CountWindowsFrom(acc, messages, i) ==
  IF i > Len(messages) THEN acc
  ELSE CountWindowsFrom(CountInWindow(acc, messages[i]), messages, i + 1)

\* sorted(window_counts.keys())
RECURSIVE SortedKeys(_)
SortedKeys(S) ==
  IF S = {} THEN << >>
  ELSE LET least == CHOOSE x \in S : \A y \in S : x <= y
       IN  << least >> \o SortedKeys(S \ {least})

\* The details of one category, if its count has increased.
CategoryTrend(window_counts, category) ==
  LET weeks == SortedKeys(DOMAIN window_counts)
      counts == [j \in DOMAIN weeks |->
                   IF category \in DOMAIN window_counts[weeks[j]]
                   THEN window_counts[weeks[j]][category] ELSE 0]
  IN  IF Len(counts) >= 2 /\ counts[Len(counts)] > counts[1]
      THEN << [category |-> category,
               trend |-> "increasing",
               windows |-> Len(counts),
               initial_count |-> counts[1],
               final_count |-> counts[Len(counts)]] >>
      ELSE << >>

analyze_escalation_patterns(messages) ==
  IF Len(messages) = 0 \/ ~Truthy(messages[1].timestamp)
  THEN [escalation_detected |-> FALSE, details |-> << >>]
  ELSE LET counted == CountWindowsFrom(
                        [current_window_start |-> messages[1].timestamp.day,
                         window_counts |-> [w \in {} |-> 0]],
                        messages, 1)
           details == CategoryTrend(counted.window_counts, EscalationCategories[1])
                      \o CategoryTrend(counted.window_counts, EscalationCategories[2])
       IN  [escalation_detected |-> Len(details) > 0, details |-> details]

(***************************************************************************)
(* abuse_pattern_engine.py: AbusePatternEngine(ABUSE_INDICATORS,           *)
(* ABUSE_SYNONYMS), as analyze_text_advanced builds it.                    *)
(***************************************************************************)
\* sub in text
str_contains(sub, text) ==
  \E i \in 1..(Len(text) - Len(sub) + 1) : SubSeq(text, i, i + Len(sub) - 1) = sub

\* SequenceMatcher(None, text.lower(), keyword.lower()).ratio() >= threshold
\* with the default threshold 0.85: in integers, 40 * matches >= 17 * length.
\* No more characters match than the shorter string has, nor than the
\* keyword shares with the text.
fuzzy_match(text, keyword) ==
  LET a == lower(text)
      b == lower(keyword)
      length == Len(a) + Len(b)
  IN  /\ 40 * (IF Len(a) < Len(b) THEN Len(a) ELSE Len(b)) >= 17 * length
      /\ 40 * SharedSize(a, b) >= 17 * length
      /\ 40 * MatchingSize(a, b, 1, Len(a), 1, Len(b)) >= 17 * length

\* The keyword is a key of the synonym table as it is written, and keyword
\* and synonyms are searched as they are written in the lowered text.
synonym_match(text, keyword) ==
  \/ \E n \in DOMAIN ABUSE_SYNONYMS :
        /\ ABUSE_SYNONYMS[n].syn = keyword
        /\ \E k \in DOMAIN ABUSE_SYNONYMS[n].syn_list :
              str_contains(ABUSE_SYNONYMS[n].syn_list[k], lower(text))
  \/ str_contains(keyword, lower(text))

\* The texts the engine is run on.
EngineTexts == { get_text(m) : m \in EngineEnv.messages } \cup { "" }

\* Per text: the result dict of analyze_message, entry by entry in the order
\* of insertion (the categories in the order of ABUSE_INDICATORS).
MessagePatterns ==
  [t \in EngineTexts |->
     LET text == lower(t)
         all == [c \in DOMAIN ABUSE_INDICATORS |->
                   [category |-> ABUSE_INDICATORS[c].category,
                    keywords |-> SelectSeq(ABUSE_INDICATORS[c].keywords,
                                           LAMBDA kw : \/ synonym_match(text, kw)
                                                       \/ fuzzy_match(text, kw))]]
     IN  SelectSeq(all, LAMBDA entry : entry.keywords # << >>)]

analyze_message(message) == MessagePatterns[get_text(message)]

\* abuse_counts: len() of a result dict is the number of its categories.
detect_escalation(messages) ==
  LET abuse_counts == [i \in DOMAIN messages |-> Len(analyze_message(messages[i]))]
  IN  \E i \in 1..(Len(messages) - 1) : abuse_counts[i] < abuse_counts[i + 1]

\* The loop of detect_cycle from message i on; last_cat "" is None.
RECURSIVE CycleCountFrom(_, _, _, _)
CycleCountFrom(messages, i, last_cat, cycle_count) ==
  IF i > Len(messages) THEN cycle_count
  ELSE LET cats == analyze_message(messages[i])
       IN  IF cats # << >>
           THEN CycleCountFrom(messages, i + 1, cats[1].category,
                               IF cats[1].category = last_cat THEN cycle_count + 1
                               ELSE cycle_count)
           ELSE CycleCountFrom(messages, i + 1, last_cat, cycle_count)

detect_cycle(messages) == CycleCountFrom(messages, 1, "", 0) > 2

\* AbusePatternEngine.analyze_conversation: per category the keywords of all
\* the messages, and the two flags next to the categories.
engine_analyze_conversation(messages) ==
  LET per_message == Flatten([i \in DOMAIN messages |-> analyze_message(messages[i])])
      found == { per_message[j].category : j \in DOMAIN per_message }
  IN  [n \in found \cup {"escalation_detected", "cycle_detected"} |->
         CASE n = "escalation_detected" -> detect_escalation(messages)
           [] n = "cycle_detected" -> detect_cycle(messages)
           [] OTHER -> Flatten([j \in DOMAIN per_message |->
                                  IF per_message[j].category = n
                                  THEN per_message[j].keywords ELSE << >>])]

(***************************************************************************)
(* The program: a caller assembles a message list or a document text,      *)
(* builds an analyzer on it and runs the analysis, possibly again.         *)
(***************************************************************************)
InitIn(e) ==
  /\ env = e
  /\ input = << >>
  /\ doc = ""
  /\ pc = "input"
  /\ darvo = [messages |-> << >>, text |-> ""]
  /\ conv = [messages |-> << >>, abuse_patterns |-> EmptyDict]
  /\ results = << >>
  /\ scans = << >>
  /\ escalations = << >>
  /\ findings = << >>
  /\ advanced = << >>
  /\ clock = 0

\* The caller appends a message to its list.
AddMessage ==
  /\ pc = "input"
  /\ doc = ""
  /\ Len(input) < Domain(env).maxLen
  /\ \E m \in Domain(env).messages : input' = Append(input, m)
  /\ UNCHANGED << env, doc, pc, darvo, conv, results, scans, clock, escalations, findings,
                  advanced >>

\* The caller holds a document text instead of messages.
SetText ==
  /\ pc = "input"
  /\ doc = ""
  /\ input = << >>
  /\ \E t \in Domain(env).documents : doc' = t
  /\ UNCHANGED << env, input, pc, darvo, conv, results, scans, clock, escalations, findings,
                  advanced >>

\* DARVOAnalyzer(messages=input, text=doc)
NewDARVOAnalyzer ==
  /\ pc \in {"input", "darvo"}
  /\ darvo' = [messages |-> input, text |-> doc]
  /\ pc' = "darvo"
  /\ UNCHANGED << env, input, doc, conv, results, scans, clock, escalations, findings,
                  advanced >>

\* analyze_darvo_patterns(), reading the wall clock, which has not gone back.
AnalyzeDarvo ==
  /\ pc = "darvo"
  /\ Len(results) < MaxRuns
  /\ \E now \in clock..Domain(env).maxClock :
        /\ clock' = now
        /\ results' = Append(results, analyze_darvo_patterns(darvo, now))
        /\ darvo' = [darvo EXCEPT !.messages = MessagesAfter(darvo, now)]
  /\ UNCHANGED << env, input, doc, pc, conv, scans, escalations, findings,
                  advanced >>

\* ConversationAnalyzer(input): normalize_messages rewrites the caller's
\* message dicts in place; the analyzer keeps them sorted by timestamp.
NewConversationAnalyzer ==
  /\ pc = "input"
  /\ doc = ""
  /\ input' = normalize_messages(input)
  /\ conv' = [messages |-> sorted_by_timestamp(normalize_messages(input)),
              abuse_patterns |-> EmptyDict]
  /\ pc' = "conv"
  /\ UNCHANGED << env, doc, darvo, results, scans, clock, escalations, findings,
                  advanced >>

\* analyze_abuse_patterns()
AnalyzeAbuse ==
  /\ pc = "conv"
  /\ Len(scans) < MaxRuns
  /\ \E r \in analyze_abuse_patterns(conv.messages) :
        /\ conv' = [conv EXCEPT !.abuse_patterns = r]
        /\ scans' = Append(scans, r)
  /\ UNCHANGED << env, input, doc, pc, darvo, results, clock, escalations, findings,
                  advanced >>

\* analyze_escalation_patterns()
AnalyzeEscalation ==
  /\ pc = "conv"
  /\ Len(escalations) < MaxRuns
  /\ escalations' = Append(escalations, analyze_escalation_patterns(conv.messages))
  /\ UNCHANGED << env, input, doc, pc, darvo, conv, results, scans, findings, clock, advanced >>

\* AbusePatternEngine(...).analyze_conversation(input), for the lists whose
\* texts the engine's table holds.
AnalyzeAdvanced ==
  /\ pc = "input"
  /\ doc = ""
  /\ \A i \in DOMAIN input : get_text(input[i]) \in EngineTexts
  /\ advanced' = Append(advanced, engine_analyze_conversation(input))
  /\ pc' = "engine"
  /\ UNCHANGED << env, input, doc, darvo, conv, results, scans, escalations, findings,
                  clock >>

\* analyze_text(input), for the lists whose texts the matcher's table holds.
AnalyzeText ==
  /\ pc = "input"
  /\ doc = ""
  /\ \A i \in DOMAIN input : get_text(input[i]) \in MatcherTexts
  /\ findings' = Append(findings, analyze_text(input))
  /\ pc' = "text"
  /\ UNCHANGED << env, input, doc, darvo, conv, results, scans, escalations, clock, advanced >>

Next ==
  \/ AddMessage
  \/ SetText
  \/ NewDARVOAnalyzer
  \/ AnalyzeDarvo
  \/ NewConversationAnalyzer
  \/ AnalyzeAbuse
  \/ AnalyzeEscalation
  \/ AnalyzeText
  \/ AnalyzeAdvanced

\* Message lists for the sequence detector and the forensic summary.
Spec == InitIn("sequence") /\ [][Next]_vars

\* Message lists whose scores reach every risk threshold.
SpecSeverity == InitIn("severity") /\ [][Next]_vars

\* Analyses repeated while the wall clock advances.
SpecRepeat == InitIn("repeat") /\ [][Next]_vars

\* Message lists spread over four weeks, some without timestamp.
SpecTimeline == InitIn("timeline") /\ [][Next]_vars

\* Message lists for the document matcher.
SpecMatcher == InitIn("matcher") /\ [][Next]_vars

\* Message lists with a missing or None text or a malformed timestamp.
SpecMalformed == InitIn("malformed") /\ [][Next]_vars

\* Message lists for the pattern engine.
SpecEngine == InitIn("engine") /\ [][Next]_vars

TypeOK ==
  /\ env \in EnvNames
  /\ pc \in {"input", "darvo", "conv", "text", "engine"}
  /\ Len(input) <= Domain(env).maxLen
  /\ Len(results) <= MaxRuns
  /\ Len(scans) <= MaxRuns
  /\ Len(escalations) <= MaxRuns
  /\ Len(findings) <= 1
  /\ Len(advanced) <= 1
  /\ clock \in 0..Domain(env).maxClock

(***************************************************************************)
(* Properties.  The results a DARVOAnalyzer has returned are in results;   *)
(* while the analyzer was built on a message list, that list is input.     *)
(***************************************************************************)
\* The analyzer was built on the message list input and has analysed it.
AnalysedList == pc = "darvo" /\ doc = "" /\ Len(results) > 0

\* The messages the results were computed from.
Analysed == IF doc = "" THEN input ELSE DocumentMessages(doc, 0)

\* The roles of a message, from its text alone.
RolesOf(msg) == Classifications(msg)

\* Per text, category and subcategory: the set of all the keywords that match
\* the lowercased text between word boundaries.
Matching ==
  [t \in TextPool |->
     LET all(subcategories) ==
           [s \in DOMAIN subcategories |->
              { k \in DOMAIN subcategories[s].keywords :
                   re_search(lower(subcategories[s].keywords[k]), lower(t)) }]
     IN  [Deny |-> all(DARVO_INDICATORS.Deny),
          Attack |-> all(DARVO_INDICATORS.Attack),
          Reverse_Victim_Offender |-> all(DARVO_INDICATORS.Reverse_Victim_Offender),
          Institutional_DARVO |-> all(DARVO_INDICATORS.Institutional_DARVO),
          Child_Focused |-> all(CHILD_FOCUSED_DARVO)]]

Categories ==
  {"Deny", "Attack", "Reverse_Victim_Offender", "Institutional_DARVO", "Child_Focused"}

SubcategoriesOf(category) ==
  IF category = "Child_Focused" THEN CHILD_FOCUSED_DARVO ELSE DARVO_INDICATORS[category]

\* The result's pattern map of a category.
PatternMap(r, category) ==
  CASE category = "Deny" -> r.deny_patterns
    [] category = "Attack" -> r.attack_patterns
    [] category = "Reverse_Victim_Offender" -> r.reverse_patterns
    [] category = "Institutional_DARVO" -> r.institutional_patterns
    [] category = "Child_Focused" -> r.child_focused_patterns

\* Whether some keyword of the category matches the message.
MatchesCategory(msg, category) ==
  \E s \in DOMAIN Matching[msg.text][category] : Matching[msg.text][category][s] # {}

RECURSIVE SumOfSet(_, _)
SumOfSet(f, S) ==
  IF S = {} THEN 0
  ELSE LET x == CHOOSE y \in S : TRUE IN f[x] + SumOfSet(f, S \ {x})

(***************************************************************************)
(* C1: for every compound pattern and every window the detector examines,  *)
(* the window check reports a match exactly when the window holds messages *)
(* at strictly increasing positions, one per role of the pattern and in    *)
(* the pattern's order, each message's role set containing its role; and   *)
(* the detector records one match per such window.                         *)
(***************************************************************************)
HasOrderedPositions(window, target_pattern) ==
  \E p \in [1..Len(target_pattern) -> 1..Len(window)] :
     /\ \A j \in 1..(Len(target_pattern) - 1) : p[j] < p[j + 1]
     /\ \A j \in 1..Len(target_pattern) :
           Contains(window[p[j]].classifications, target_pattern[j])

RoleWindow(messages, i, window_size) ==
  [j \in 1..(Min(i + window_size, Len(messages)) - i) |->
     [classifications |-> RolesOf(messages[i + j]), message |-> messages[i + j]]]

C1_WindowCheckIsOrderedSubsequence ==
  AnalysedList =>
    \A c \in DOMAIN DARVO_COMPOUND_PATTERNS :
       LET pattern_def == DARVO_COMPOUND_PATTERNS[c]
           windows == { i \in Offsets(Len(input), pattern_def.pattern) :
                          Len(input) >= 2 }
           matching == { i \in windows :
                           HasOrderedPositions(
                             RoleWindow(input, i, pattern_def.window_messages),
                             pattern_def.pattern) }
       IN  /\ \A i \in windows :
                check_pattern_in_window(
                  Window(Classify(input), i, pattern_def.window_messages),
                  pattern_def.pattern)
                <=> i \in matching
           /\ \A r \in DOMAIN results :
                Cardinality({ j \in DOMAIN results[r].compound_patterns :
                                results[r].compound_patterns[j].pattern_type
                                  = pattern_def.name })
                = Cardinality(matching)

\* deny, no role, attack, reverse: analysed, and the full sequence recorded.
C1_Witness ==
  /\ AnalysedList
  /\ [i \in DOMAIN input |-> input[i].text]
       = << TextDeny, TextHello, TextAttack, TextReverse >>
  /\ \E j \in DOMAIN results[1].compound_patterns :
        results[1].compound_patterns[j].pattern_type = "full_darvo_sequence"

(***************************************************************************)
(* C2: the risk level of every result is a function of its scores alone:   *)
(* critical when the child-focused subtotal is above zero, and otherwise   *)
(* low for a total up to 15, medium for 16 to 30, high for 31 to 50 and    *)
(* critical above 50.  (The result for no input has no subtotals.)         *)
(***************************************************************************)
ChildSubtotal(r) ==
  IF "child_focused" \in DOMAIN r.severity_assessment.category_scores
  THEN r.severity_assessment.category_scores.child_focused
  ELSE 0

C2_RiskLevelFromScores ==
  \A r \in DOMAIN results :
     LET s == results[r].severity_assessment
     IN  s.risk_level =
           IF ChildSubtotal(results[r]) > 0 THEN "critical"
           ELSE IF s.total_score <= 15 THEN "low"
           ELSE IF s.total_score <= 30 THEN "medium"
           ELSE IF s.total_score <= 50 THEN "high"
           ELSE "critical"

\* A total of exactly 50 with no child-focused hit: still high.
C2_Witness ==
  /\ AnalysedList
  /\ results[1].severity_assessment.total_score = 50
  /\ ChildSubtotal(results[1]) = 0
  /\ results[1].severity_assessment.risk_level = "high"

\* The other boundaries of the table.
C2_Total15 ==
  AnalysedList /\ results[1].severity_assessment.total_score = 15
    /\ ChildSubtotal(results[1]) = 0
C2_Total16 ==
  AnalysedList /\ results[1].severity_assessment.total_score = 16
    /\ ChildSubtotal(results[1]) = 0
C2_Total30 ==
  AnalysedList /\ results[1].severity_assessment.total_score = 30
    /\ ChildSubtotal(results[1]) = 0
C2_Total31 ==
  AnalysedList /\ results[1].severity_assessment.total_score = 31
    /\ ChildSubtotal(results[1]) = 0
C2_Total51 ==
  AnalysedList /\ results[1].severity_assessment.total_score = 51
    /\ ChildSubtotal(results[1]) = 0
C2_ChildBelow16 ==
  AnalysedList /\ results[1].severity_assessment.total_score <= 15
    /\ ChildSubtotal(results[1]) > 0

(***************************************************************************)
(* C3: a single message whose only matching keyword is "custody" is scored *)
(* as an Attack (threat_of_consequences) hit of weight 5 and not as a      *)
(* child-focused hit: total 5, child-focused subtotal 0, risk level low.   *)
(* A single message that matches a child-focused keyword, such as "I'll    *)
(* get full custody", is critical although its total is below 51.          *)
(***************************************************************************)
\* The keywords that match the message, over all categories.
MatchingKeywords(msg) ==
  UNION { UNION { { lower(SubcategoriesOf(c)[s].keywords[k]) :
                      k \in Matching[msg.text][c][s] } :
                  s \in DOMAIN SubcategoriesOf(c) } :
          c \in Categories }

OnlyCustody == AnalysedList /\ Len(input) = 1 /\ MatchingKeywords(input[1]) = {"custody"}

OnlyChildFocused ==
  AnalysedList /\ Len(input) = 1 /\ MatchesCategory(input[1], "Child_Focused")

C3_CustodyIsAttackNotChild ==
  /\ OnlyCustody =>
       \A r \in DOMAIN results :
          /\ results[r].severity_assessment.total_score = 5
          /\ results[r].severity_assessment.category_scores.attack = 5
          /\ results[r].severity_assessment.category_scores.child_focused = 0
          /\ results[r].attack_patterns.threat_of_consequences.count = 1
          /\ \A n \in DOMAIN results[r].child_focused_patterns :
                results[r].child_focused_patterns[n].count = 0
          /\ results[r].severity_assessment.risk_level = "low"
  /\ OnlyChildFocused =>
       \A r \in DOMAIN results :
          /\ results[r].severity_assessment.category_scores.child_focused > 0
          /\ results[r].severity_assessment.total_score < 51
          /\ results[r].severity_assessment.risk_level = "critical"

\* The message "I want custody." analysed alone.
C3_Witness ==
  /\ OnlyCustody
  /\ input[1].text = TextCustody
  /\ results[1].severity_assessment.risk_level = "low"

\* The statement as the specification has it: the "custody" message is
\* child-focused and therefore critical.
C3_CustodyIsChildFocused ==
  OnlyCustody =>
    \A r \in DOMAIN results :
       /\ results[r].severity_assessment.category_scores.child_focused > 0
       /\ results[r].severity_assessment.risk_level = "critical"

(***************************************************************************)
(* C4: the forensic summary reports the full DARVO pattern exactly when at *)
(* least one message matches a Deny keyword, at least one an Attack        *)
(* keyword and at least one a Reverse keyword; its instance counts are the *)
(* numbers of distinct messages matching each category; and the summary of *)
(* the list with any two of its messages exchanged is the same (every      *)
(* reordering of a list is a composition of such exchanges).               *)
(***************************************************************************)
MessagesMatching(messages, category) ==
  { i \in DOMAIN messages : MatchesCategory(messages[i], category) }

Exchanged(messages, a, b) ==
  [i \in DOMAIN messages |->
     IF i = a THEN messages[b] ELSE IF i = b THEN messages[a] ELSE messages[i]]

C4_FullPatternIsUnordered ==
  AnalysedList =>
    \A r \in DOMAIN results :
       LET f == results[r].forensic_summary
           deny == MessagesMatching(input, "Deny")
           attack == MessagesMatching(input, "Attack")
           reverse == MessagesMatching(input, "Reverse_Victim_Offender")
           child == MessagesMatching(input, "Child_Focused")
       IN  /\ f.full_darvo_pattern_detected
                <=> (deny # {} /\ attack # {} /\ reverse # {})
           /\ f.instance_counts.deny_instances = Cardinality(deny)
           /\ f.instance_counts.attack_instances = Cardinality(attack)
           /\ f.instance_counts.reverse_instances = Cardinality(reverse)
           /\ f.instance_counts.child_focused_instances = Cardinality(child)
           /\ \A a, b \in DOMAIN input :
                 [generate_forensic_summary(Exchanged(input, a, b), clock)
                    EXCEPT !.analysis_date = f.analysis_date] = f

\* Reverse first and deny last, with an attack between: the full pattern is
\* reported.
C4_Witness ==
  /\ AnalysedList
  /\ Len(input) >= 3
  /\ RolesOf(input[1]) = << "reverse" >>
  /\ RolesOf(input[Len(input)]) = << "deny" >>
  /\ results[1].forensic_summary.full_darvo_pattern_detected

(***************************************************************************)
(* C5: the forensic flag and the compound detector can disagree.  For a    *)
(* list of three messages, one denying, one attacking and one reversing,   *)
(* in any order other than deny, attack, reverse, the forensic summary     *)
(* reports the full pattern and the compound patterns hold no              *)
(* full_darvo_sequence.                                                    *)
(***************************************************************************)
Shuffled ==
  /\ Len(input) = 3
  /\ \A i \in 1..3 : Len(RolesOf(input[i])) = 1
  /\ { RolesOf(input[i])[1] : i \in 1..3 } = {"deny", "attack", "reverse"}
  /\ [i \in 1..3 |-> RolesOf(input[i])[1]] # << "deny", "attack", "reverse" >>

C5_FlagWithoutSequence ==
  (AnalysedList /\ Shuffled) =>
    \A r \in DOMAIN results :
       /\ results[r].forensic_summary.full_darvo_pattern_detected
       /\ \A j \in DOMAIN results[r].compound_patterns :
             results[r].compound_patterns[j].pattern_type # "full_darvo_sequence"

\* Reverse, attack, deny: analysed.
C5_Witness ==
  /\ AnalysedList
  /\ [i \in DOMAIN input |-> input[i].text] = << TextReverse, TextAttack, TextDeny >>
  /\ results[1].forensic_summary.full_darvo_pattern_detected
  /\ results[1].compound_patterns = << >>

(***************************************************************************)
(* C6: the total score is the sum, over the messages and over the Deny,    *)
(* Attack, Reverse and Institutional subcategories with at least one       *)
(* keyword matching the message, of the subcategory's weight, plus 5 for   *)
(* every message and child-focused subcategory with at least one keyword   *)
(* matching; and the five category subtotals add up to the total.          *)
(***************************************************************************)
WeightedCategories ==
  {"Deny", "Attack", "Reverse_Victim_Offender", "Institutional_DARVO"}

\* The (message, category, subcategory) triples with a matching keyword.
Hits(messages, categories) ==
  UNION { { << i, c, s >> :
              s \in { t \in DOMAIN SubcategoriesOf(c) :
                        Matching[messages[i].text][c][t] # {} } } :
          i \in DOMAIN messages, c \in categories }

HitWeight(h) ==
  IF h[2] = "Child_Focused" THEN 5
  ELSE DARVO_SEVERITY_WEIGHTS[h[2]][SubcategoriesOf(h[2])[h[3]].name]

ExpectedTotal(messages) ==
  LET hits == Hits(messages, Categories)
  IN  SumOfSet([h \in hits |-> HitWeight(h)], hits)

C6_TotalIsSumOfWeights ==
  \A r \in DOMAIN results :
     LET s == results[r].severity_assessment
     IN  (pc = "darvo" /\ Analysed # << >>) =>
           /\ s.total_score = ExpectedTotal(Analysed)
           /\ s.category_scores.deny + s.category_scores.attack
                + s.category_scores.reverse + s.category_scores.institutional
                + s.category_scores.child_focused = s.total_score
           /\ s.category_scores.child_focused
                = 5 * Cardinality(Hits(Analysed, {"Child_Focused"}))

\* A message with two keywords of one weighted subcategory and two of one
\* child-focused subcategory, analysed beside another child-focused message.
C6_Witness ==
  /\ AnalysedList
  /\ \E i, j \in DOMAIN input :
        /\ input[i].text = TextCourt
        /\ input[j].text = TextChild
  /\ results[1].severity_assessment.total_score = ExpectedTotal(input)
  /\ results[1].severity_assessment.category_scores.child_focused >= 10

(***************************************************************************)
(* C7: in each of the five pattern maps and for each subcategory, the      *)
(* instances are one per message with a matching keyword, in message       *)
(* order, each recording the first matching keyword in lexicon order; the  *)
(* count is the number of instances, and at most the number of messages.   *)
(***************************************************************************)
\* The messages with a keyword of the subcategory matching, in order.
MatchedMessages(messages, category, s) ==
  SelectSeq(messages, LAMBDA msg : Matching[msg.text][category][s] # {})

FirstKeyword(msg, category, s) ==
  SubcategoriesOf(category)[s].keywords[SetMin(Matching[msg.text][category][s])]

C7_OneInstancePerMessage ==
  \A r \in DOMAIN results :
     (pc = "darvo" /\ Analysed # << >>) =>
       \A c \in Categories :
          \A s \in DOMAIN SubcategoriesOf(c) :
             LET entry == PatternMap(results[r], c)[SubcategoriesOf(c)[s].name]
                 matched == MatchedMessages(Analysed, c, s)
             IN  /\ entry.count = Len(entry.instances)
                 /\ entry.count <= Len(Analysed)
                 /\ Len(entry.instances) = Len(matched)
                 /\ \A j \in DOMAIN matched :
                       /\ entry.instances[j].keyword = FirstKeyword(matched[j], c, s)
                       /\ entry.instances[j].text = Prefix(matched[j].text, 200)
                       /\ entry.instances[j].sender = matched[j].sender

\* A message in which two keywords of court_manipulation match: one instance,
\* with the keyword the lexicon lists first.
C7_Witness ==
  /\ AnalysedList
  /\ \E i \in DOMAIN input :
        /\ input[i].text = TextCourt
        /\ Cardinality(Matching[TextCourt]["Institutional_DARVO"][
              IndexOf(DARVO_INDICATORS.Institutional_DARVO, "court_manipulation")]) = 2
  /\ results[1].institutional_patterns.court_manipulation.count
       = Cardinality({ i \in DOMAIN input : input[i].text = TextCourt })
  /\ results[1].institutional_patterns.court_manipulation.instances[1].keyword
       = "coached the children"

(***************************************************************************)
(* C8: analysing no messages and no text raises nothing and gives a total  *)
(* score of 0, risk level low, no message analysed, zero instance counts,  *)
(* no full pattern, no high-risk indicator and no compound pattern; and    *)
(* ConversationAnalyzer.analyze_abuse_patterns on no messages gives the    *)
(* empty map.                                                              *)
(***************************************************************************)
\* An analyzer built on nothing has run.
AnalysedNothing == AnalysedList /\ input = << >>

ScannedNothing == pc = "conv" /\ input = << >> /\ Len(scans) > 0

C8_EmptyInputIsZero ==
  /\ AnalysedNothing =>
       \A r \in DOMAIN results :
          LET f == results[r].forensic_summary
          IN  /\ results[r].severity_assessment.total_score = 0
              /\ results[r].severity_assessment.risk_level = "low"
              /\ f.total_messages_analyzed = 0
              /\ \A n \in DOMAIN f.instance_counts : f.instance_counts[n] = 0
              /\ \A c \in Categories :
                    \A n \in DOMAIN PatternMap(results[r], c) :
                       PatternMap(results[r], c)[n].count = 0
              /\ ~f.full_darvo_pattern_detected
              /\ ~f.high_risk_indicators
              /\ results[r].compound_patterns = << >>
  /\ ScannedNothing => \A r \in DOMAIN scans : DOMAIN scans[r] = {}

\* The analyzer built on the empty list has returned its result.
C8_Witness ==
  /\ AnalysedNothing
  /\ results[Len(results)].severity_assessment.risk_level = "low"
  /\ results[Len(results)].forensic_summary.total_messages_analyzed = 0

\* The abuse scan of the empty list has returned as well.
C8_ScanWitness == ScannedNothing /\ DOMAIN scans[1] = {}

(***************************************************************************)
(* C9: the result for the empty list has the keys of a result for a        *)
(* non-empty list at the top level and in severity_assessment and          *)
(* forensic_summary (with its component flags and instance counts), and    *)
(* its timeline_analysis is that of any list without a timestamp; but its  *)
(* five pattern maps and its category_scores are empty maps, where a       *)
(* non-empty list's pattern maps hold every subcategory (count 0 and no    *)
(* instance where nothing matched) and all five category subtotals.        *)
(***************************************************************************)
TopKeys ==
  {"deny_patterns", "attack_patterns", "reverse_patterns", "institutional_patterns",
   "child_focused_patterns", "compound_patterns", "severity_assessment",
   "timeline_analysis", "forensic_summary"}

SeverityKeys == {"total_score", "category_scores", "risk_level", "interpretation"}

ForensicKeys ==
  {"analysis_date", "total_messages_analyzed", "darvo_components_present",
   "full_darvo_pattern_detected", "instance_counts", "high_risk_indicators",
   "recommended_actions"}

CategoryScoreKeys == {"deny", "attack", "reverse", "institutional", "child_focused"}

CommonShape(r) ==
  /\ DOMAIN r = TopKeys
  /\ DOMAIN r.severity_assessment = SeverityKeys
  /\ DOMAIN r.forensic_summary = ForensicKeys
  /\ DOMAIN r.forensic_summary.darvo_components_present = {"deny", "attack", "reverse"}
  /\ DOMAIN r.forensic_summary.instance_counts
       = {"deny_instances", "attack_instances", "reverse_instances",
          "child_focused_instances"}

\* Every subcategory and every category subtotal is there.
PopulatedShape(r) ==
  /\ \A c \in Categories :
        /\ DOMAIN PatternMap(r, c) = Names(SubcategoriesOf(c))
        /\ \A n \in DOMAIN PatternMap(r, c) :
              DOMAIN PatternMap(r, c)[n] = {"count", "instances"}
  /\ DOMAIN r.severity_assessment.category_scores = CategoryScoreKeys

UntimedTimeline(r) == r.timeline_analysis = [timeline_available |-> FALSE]

C9_EmptyShape ==
  AnalysedList =>
    \A r \in DOMAIN results :
       /\ CommonShape(results[r])
       /\ (\A i \in DOMAIN input : ~Truthy(input[i].timestamp))
            => UntimedTimeline(results[r])
       /\ input # << >> => PopulatedShape(results[r])
       /\ input # << >> =>
            \A c \in Categories :
               \A s \in DOMAIN SubcategoriesOf(c) :
                  (\A i \in DOMAIN input : Matching[input[i].text][c][s] = {})
                    => PatternMap(results[r], c)[SubcategoriesOf(c)[s].name]
                         = [count |-> 0, instances |-> << >>]
       /\ input = << >> =>
            /\ \A c \in Categories : DOMAIN PatternMap(results[r], c) = {}
            /\ DOMAIN results[r].severity_assessment.category_scores = {}

\* The empty list analysed: a result whose maps are empty.
C9_Witness ==
  /\ AnalysedNothing
  /\ CommonShape(results[1])
  /\ DOMAIN results[1].deny_patterns = {}

\* A non-empty list in which nothing matches, analysed: zeros in every entry.
C9_PopulatedWitness ==
  /\ AnalysedList
  /\ input # << >>
  /\ \A i \in DOMAIN input : input[i].text = TextHello
  /\ PopulatedShape(results[1])

\* The statement as the specification has it: at every level the result for
\* the empty list has the keys of a result for a non-empty list.
C9_SameShapeAtEveryLevel ==
  AnalysedList =>
    \A r \in DOMAIN results : CommonShape(results[r]) /\ PopulatedShape(results[r])

(***************************************************************************)
(* C10: two analyses of the same message list give results that are equal  *)
(* in everything but forensic_summary.analysis_date, which is the wall     *)
(* clock of the run.  For a document text the one message it becomes is    *)
(* stamped with the wall clock, so the instances' timestamps and the key   *)
(* of the timeline's week follow the clock as well; everything else is     *)
(* equal.  Two abuse-pattern scans of the same messages are equal up to    *)
(* the order of each category's senders, which is the order of a set's     *)
(* iteration.                                                              *)
(***************************************************************************)
WithoutDate(r) == [r EXCEPT !.forensic_summary.analysis_date = None]

WithoutTimestamps(patterns) ==
  [n \in DOMAIN patterns |->
     [count |-> patterns[n].count,
      instances |-> [j \in DOMAIN patterns[n].instances |->
                       [patterns[n].instances[j] EXCEPT !.timestamp = None]]]]

WithoutWeekKeys(timeline) ==
  IF timeline.timeline_available
  THEN [timeline_available |-> TRUE,
        week_counts |-> { timeline.time_windows[k] : k \in DOMAIN timeline.time_windows },
        escalation_detected |-> timeline.escalation_detected,
        total_weeks |-> timeline.total_weeks]
  ELSE timeline

WithoutClock(r) ==
  [WithoutDate(r) EXCEPT
     !.deny_patterns = WithoutTimestamps(r.deny_patterns),
     !.attack_patterns = WithoutTimestamps(r.attack_patterns),
     !.reverse_patterns = WithoutTimestamps(r.reverse_patterns),
     !.institutional_patterns = WithoutTimestamps(r.institutional_patterns),
     !.child_focused_patterns = WithoutTimestamps(r.child_focused_patterns),
     !.timeline_analysis = WithoutWeekKeys(r.timeline_analysis)]

SendersAsSets(scan) ==
  [n \in DOMAIN scan |->
     [scan[n] EXCEPT !.senders = { scan[n].senders[j] : j \in DOMAIN scan[n].senders }]]

C10_DocumentWitness ==
  /\ pc = "darvo"
  /\ doc = TextDocument
  /\ Len(results) >= 2
  /\ results[1].timeline_analysis # results[2].timeline_analysis
  /\ WithoutClock(results[1]) = WithoutClock(results[2])

\* Two scans that differ in the order of a category's senders.
C10_SendersWitness ==
  /\ pc = "conv"
  /\ Len(scans) >= 2
  /\ scans[1] # scans[2]

Timestamped(messages) == SelectSeq(messages, LAMBDA m : Truthy(m.timestamp))

\* The DARVO timeline of every analysed list is the timeline of the list
\* without its untimestamped messages.
TimelineSkipsUntimestamped ==
  AnalysedList =>
    \A i \in DOMAIN results :
       results[i].timeline_analysis = analyze_timeline(Timestamped(input))

\* C11: whichever messages of a list lack a timestamp, the DARVO timeline and
\* the conversation's windowed escalation analysis return what they return
\* on the list with these messages removed.
C11_UntimestampedAreExcluded ==
  /\ TimelineSkipsUntimestamped
  /\ pc = "conv" =>
       \A i \in DOMAIN escalations :
          escalations[i] =
            analyze_escalation_patterns(sorted_by_timestamp(Timestamped(input)))

(***************************************************************************)
(* C12: the windows of the two time-based analyses.                        *)
(***************************************************************************)
\* The positions of the messages with a timestamp from day lo to day hi.
TimedBetween(messages, lo, hi) ==
  { i \in DOMAIN messages :
       /\ Truthy(messages[i].timestamp)
       /\ lo <= messages[i].timestamp.day
       /\ messages[i].timestamp.day <= hi }

HasRole(msg) ==
  \/ RoleHits[get_text(msg)].deny
  \/ RoleHits[get_text(msg)].attack
  \/ RoleHits[get_text(msg)].reverse

\* The timeline's windows are the calendar weeks, Monday to Sunday, in which
\* a timestamped message matches a role; each such message is counted in the
\* week of its own timestamp, once per role it matches.
CalendarWeeks(messages, time_windows) ==
  /\ \A k \in DOMAIN time_windows :
        /\ k % 7 = 0
        /\ \E i \in TimedBetween(messages, k, k + 6) : HasRole(messages[i])
        /\ time_windows[k].deny_count =
             Cardinality({ i \in TimedBetween(messages, k, k + 6) :
                             RoleHits[get_text(messages[i])].deny })
        /\ time_windows[k].attack_count =
             Cardinality({ i \in TimedBetween(messages, k, k + 6) :
                             RoleHits[get_text(messages[i])].attack })
        /\ time_windows[k].reverse_count =
             Cardinality({ i \in TimedBetween(messages, k, k + 6) :
                             RoleHits[get_text(messages[i])].reverse })
  /\ \A i \in DOMAIN messages :
        Truthy(messages[i].timestamp) /\ HasRole(messages[i]) =>
          \E k \in DOMAIN time_windows : i \in TimedBetween(messages, k, k + 6)

\* The windows analyze_escalation_patterns counts in.
EscalationWindows(messages) ==
  CountWindowsFrom([current_window_start |-> messages[1].timestamp.day,
                    window_counts |-> EmptyDict], messages, 1).window_counts

\* The keyword hits of an escalation category in the messages at positions S.
RECURSIVE HitsIn(_, _, _)
HitsIn(messages, S, c) ==
  IF S = {} THEN 0
  ELSE LET i == CHOOSE j \in S : TRUE
       IN  Len(AbuseHits[get_text(messages[i])][CategoryIndex(c)])
           + HitsIn(messages, S \ {i}, c)

\* The days of the window that starts at w when the earliest message is of
\* day first: the first window holds day first to first + 7, a later one the
\* seven days after its start.
WindowDaysFrom(first, w) == IF w = first THEN first..(first + 7) ELSE (w + 1)..(w + 7)

AnchoredWindows(messages, window_counts) ==
  LET first == messages[1].timestamp.day
      counted(w) == { i \in DOMAIN messages :
                        messages[i].timestamp.day \in WindowDaysFrom(first, w) }
      cats == { EscalationCategories[c] : c \in DOMAIN EscalationCategories }
  IN  /\ \A w \in DOMAIN window_counts :
            /\ w >= first
            /\ (w - first) % 7 = 0
            /\ \E c \in cats : HitsIn(messages, counted(w), c) > 0
            /\ \A c \in cats :
                  HitsIn(messages, counted(w), c) =
                    IF c \in DOMAIN window_counts[w] THEN window_counts[w][c] ELSE 0
      /\ \A i \in DOMAIN messages :
            (\E c \in cats : HitsIn(messages, {i}, c) > 0) =>
              \E w \in DOMAIN window_counts : i \in counted(w)

C12_BoundaryWitness ==
  /\ pc = "conv" /\ Len(escalations) > 0
  /\ Len(conv.messages) = 2
  /\ conv.messages[1].timestamp = datetime(0)
  /\ conv.messages[2].timestamp = datetime(7)
  /\ DOMAIN EscalationWindows(conv.messages) = {0}

WeeksOf(messages, S) ==
  { k \in { messages[i].timestamp.day - d : i \in S, d \in 0..6 } :
       k % 7 = 0 /\ \E i \in S : i \in TimedBetween(messages, k, k + 6) }

Timed(messages) == { i \in DOMAIN messages : Truthy(messages[i].timestamp) }

\* The number of roles (deny, attack, reverse) a message matches.
RolesMatched(msg) ==
  BoolCount(RoleHits[get_text(msg)].deny)
  + BoolCount(RoleHits[get_text(msg)].attack)
  + BoolCount(RoleHits[get_text(msg)].reverse)

\* The role hits of the messages at the positions S.
RECURSIVE RoleHitsOf(_, _)
RoleHitsOf(messages, S) ==
  IF S = {} THEN 0
  ELSE LET i == CHOOSE j \in S : TRUE
       IN  RolesMatched(messages[i]) + RoleHitsOf(messages, S \ {i})

\* The role hits of the messages of the week that starts on day k.
WeekTotal(messages, k) == RoleHitsOf(messages, TimedBetween(messages, k, k + 6))

\* The flag computed from the weeks in the set weeks: at least two of them,
\* and the total of the last more than 1.5 times the total of the first.
Escalates(messages, weeks) ==
  /\ Cardinality(weeks) >= 2
  /\ 2 * WeekTotal(messages, SetMax(weeks)) > 3 * WeekTotal(messages, SetMin(weeks))

\* What the code computes: the flag is taken over the calendar weeks that
\* hold a timestamped message matching a role; a week whose messages match
\* nothing is no window, and total_weeks does not count it.
EscalationOverMatchingWeeks ==
  AnalysedList =>
    \A i \in DOMAIN results :
       LET t == results[i].timeline_analysis
           weeks == WeeksOf(input, { j \in Timed(input) : HasRole(input[j]) })
       IN  t.timeline_available =>
             /\ t.escalation_detected = Escalates(input, weeks)
             /\ t.total_weeks = Cardinality(weeks)

\* For totals 2 then 4 and 2 then 3 the code gives the flag the
\* specification's example gives.
TotalsTwoThenFour ==
  /\ AnalysedList
  /\ WeeksOf(input, Timed(input)) = {0, 14}
  /\ WeekTotal(input, 0) = 2 /\ WeekTotal(input, 14) = 4
  /\ results[1].timeline_analysis.escalation_detected

TotalsTwoThenThree ==
  /\ AnalysedList
  /\ WeeksOf(input, Timed(input)) = {0, 14}
  /\ WeekTotal(input, 0) = 2 /\ WeekTotal(input, 14) = 3
  /\ ~results[1].timeline_analysis.escalation_detected

\* C13: escalation_detected is true exactly when the timestamped messages
\* span at least two weekly windows and the role-hit total of the window of
\* the latest timestamped message is more than 1.5 times the total of the
\* window of the earliest timestamped message.
C13_EscalationOverAllWeeks ==
  AnalysedList =>
    \A i \in DOMAIN results :
       LET t == results[i].timeline_analysis
       IN  t.timeline_available =>
             t.escalation_detected = Escalates(input, WeeksOf(input, Timed(input)))

(***************************************************************************)
(* C14: the exact matcher and word boundaries.                             *)
(***************************************************************************)
\* The keyword occurs in the text, in whatever letter case, at position i.
OccursAt(keyword, text, i) ==
  lower(SubSeq(text, i, i + Len(keyword) - 1)) = lower(keyword)

\* The keyword occurs in the text as a word or as a group of words: neither
\* the character before nor the character after the occurrence is a letter,
\* a digit or an underscore.
Delimited(keyword, text) ==
  \E i \in 1..(Len(text) - Len(keyword) + 1) :
     /\ OccursAt(keyword, text, i)
     /\ ~IsWordAt(text, i - 1)
     /\ ~IsWordAt(text, i + Len(keyword))

\* The categories of a result of analyze_text.
FoundCategories(r) == DOMAIN r \ {"escalation_detected"}

\* C14: whatever an analyzer reports as matched between word boundaries (an
\* exact finding of analyze_text, an instance of a DARVO detector, a keyword
\* of analyze_abuse_patterns) occurs in the message as a word or a group of
\* words, in whatever letter case, never only inside a longer word.
C14_ExactMatchIsDelimited ==
  /\ \A n \in DOMAIN findings :
        ~Raised(findings[n]) =>
          \A c \in FoundCategories(findings[n]) :
             \A j \in DOMAIN findings[n][c] :
                LET f == findings[n][c][j]
                IN  f.type = "exact" => Delimited(f.indicator, f.full_message)
  /\ \A n \in DOMAIN results :
        ~Raised(results[n]) =>
          \A c \in Categories :
             \A s \in DOMAIN PatternMap(results[n], c) :
                \A j \in DOMAIN PatternMap(results[n], c)[s].instances :
                   LET inst == PatternMap(results[n], c)[s].instances[j]
                   IN  \E m \in DOMAIN Analysed :
                          /\ inst.text = Prefix(get_text(Analysed[m]), 200)
                          /\ Delimited(inst.keyword, get_text(Analysed[m]))
  /\ \A n \in DOMAIN scans :
        \A c \in DOMAIN scans[n] :
           \A j \in DOMAIN scans[n][c].messages :
              LET e == scans[n][c].messages[j]
              IN  \E m \in DOMAIN conv.messages :
                     /\ e.text = Excerpt(get_text(conv.messages[m]))
                     /\ Delimited(e.keyword, get_text(conv.messages[m]))

\* "fat" occurs in "My father went to the store." inside a longer word only,
\* and the analyzers that looked at the message report no exact match.
C14_Witness ==
  /\ Len(input) = 1
  /\ get_text(input[1]) = TextFather
  /\ \E i \in 1..Len(TextFather) : OccursAt("fat", TextFather, i)
  /\ ~Delimited("fat", TextFather)
  /\ \/ /\ pc = "text"
        /\ \A c \in FoundCategories(findings[1]) :
              \A j \in DOMAIN findings[1][c] : findings[1][c][j].type # "exact"
     \/ /\ pc = "conv" /\ Len(scans) > 0
        /\ DOMAIN scans[1] = {}

\* "FAT" in capitals is reported as an exact match of the keyword "fat".
C14_CaseWitness ==
  /\ pc = "text"
  /\ Len(input) = 1
  /\ get_text(input[1]) = TextFat
  /\ \E j \in DOMAIN findings[1]["Emotional Abuse / Degradation"] :
        LET f == findings[1]["Emotional Abuse / Degradation"][j]
        IN  f.type = "exact" /\ f.indicator = "fat"
(***************************************************************************)
(* C15: keywords inside longer words.                                      *)
(***************************************************************************)
\* The keyword occurs somewhere in the text, in whatever letter case.
Occurs(keyword, text) ==
  \E i \in 1..(Len(text) - Len(keyword) + 1) : OccursAt(keyword, text, i)

\* The synonyms analyze_text searches for under a keyword.
SynonymsOf(keyword) ==
  UNION { { ABUSE_SYNONYMS[n].syn_list[k] : k \in DOMAIN ABUSE_SYNONYMS[n].syn_list } :
          n \in { m \in DOMAIN ABUSE_SYNONYMS : lower(ABUSE_SYNONYMS[m].syn) = lower(keyword) } }

\* Per text of the samples: the categories whose keywords occur in the text
\* only inside longer words (some keyword occurs, none of the keywords and
\* none of their synonyms occurs as a word or a group of words).
EmbeddedOnly ==
  [t \in MatcherTexts |->
     LET text == replace_smart_quotes(t)
     IN  { c \in DOMAIN ABUSE_INDICATORS :
             LET keywords == { ABUSE_INDICATORS[c].keywords[k] :
                               k \in DOMAIN ABUSE_INDICATORS[c].keywords }
             IN  /\ \E kw \in keywords : Occurs(kw, text)
                 /\ \A kw \in keywords :
                      /\ ~Delimited(kw, text)
                      /\ \A s \in SynonymsOf(kw) : ~Delimited(s, text) }]

\* The categories whose keywords occur in the analysed messages only inside
\* longer words: in no message as a word, in some message inside a word.
EmbeddedCategories ==
  { c \in DOMAIN ABUSE_INDICATORS :
      /\ \E i \in DOMAIN input : c \in EmbeddedOnly[get_text(input[i])]
      /\ \A i \in DOMAIN input :
           \/ c \in EmbeddedOnly[get_text(input[i])]
           \/ TextMatches[get_text(input[i])][c] = << >> }

\* What the code does in that case: the category has no exact and no
\* synonym finding, whatever it has is a fuzzy finding.
EmbeddedKeywordsGiveOnlyFuzzy ==
  \A n \in DOMAIN findings :
     ~Raised(findings[n]) =>
       \A c \in EmbeddedCategories :
          LET name == ABUSE_INDICATORS[c].category
          IN  name \in DOMAIN findings[n] =>
                \A j \in DOMAIN findings[n][name] : findings[n][name][j].type = "fuzzy"

\* A message with "fat" only inside "father" has been analysed.
EmbeddedAnalysed ==
  /\ findings # << >>
  /\ ~Raised(findings[1])
  /\ EmbeddedCategories # {}

\* C15: a category whose keywords occur in the analysed messages only inside
\* longer words ("fat" inside "father", "hit" inside "white") is absent from
\* the result of analyze_text: it has no finding of any match kind.
C15_EmbeddedKeywordsGiveNoCategory ==
  \A n \in DOMAIN findings :
     ~Raised(findings[n]) =>
       \A c \in EmbeddedCategories :
          ABUSE_INDICATORS[c].category \notin DOMAIN findings[n]
(***************************************************************************)
(* C16: apostrophe and quote variants.                                     *)
(***************************************************************************)
\* The messages with every typographic quote of the text replaced by the
\* straight one: the messages are the typographic variants of these.
StraightQuoted(messages) ==
  [i \in DOMAIN messages |->
     IF "text" \in DOMAIN messages[i] /\ get_text(messages[i]) # NoneText
     THEN [messages[i] EXCEPT !.text = replace_smart_quotes(@)]
     ELSE messages[i]]

\* Some analysed message is written with a typographic quote.
HasSmartQuote(messages) == StraightQuoted(messages) # messages

\* What a result of analyze_text matched: category, keyword and match kind.
TextMatched(r) ==
  IF Raised(r) THEN {r}
  ELSE UNION { { << c, r[c][j].indicator, r[c][j].type >> : j \in DOMAIN r[c] } :
               c \in FoundCategories(r) }

\* What a result of the DARVO analysis matched: role, subcategory and keyword.
DarvoMatched(r) ==
  IF Raised(r) THEN {r}
  ELSE UNION { UNION { { << c, s, PatternMap(r, c)[s].instances[j].keyword >> :
                         j \in DOMAIN PatternMap(r, c)[s].instances } :
                       s \in DOMAIN PatternMap(r, c) } :
               c \in Categories }

\* What a result of analyze_abuse_patterns matched: category and keyword.
ScanMatched(r) ==
  UNION { { << c, r[c].messages[j].keyword >> : j \in DOMAIN r[c].messages } :
          c \in DOMAIN r }

\* The document matcher normalises the quotes before it matches: its matches
\* on a list are those on the straight-quoted list.
MatcherIgnoresQuoteVariants ==
  \A n \in DOMAIN findings :
     TextMatched(findings[n]) = TextMatched(analyze_text(StraightQuoted(input)))

\* A list with a typographic apostrophe has been through the document matcher.
SmartQuoteMatched == findings # << >> /\ HasSmartQuote(input)

\* A list with a typographic apostrophe has been through the DARVO analysis.
SmartQuoteAnalysed == results # << >> /\ HasSmartQuote(Analysed)

\* C16: typographic quotes in place of straight ones change nothing of what
\* a message matches: the keywords, subcategories and roles found by the
\* document matcher, by the DARVO analyzer and by the conversation analyzer
\* are those found on the straight-quoted messages.
C16_QuoteVariantsMatchAlike ==
  /\ \A n \in DOMAIN findings :
        TextMatched(findings[n]) = TextMatched(analyze_text(StraightQuoted(input)))
  /\ \A n \in DOMAIN results :
        DarvoMatched(results[n])
          = DarvoMatched(analyze_conversation(StraightQuoted(Analysed), clock))
  /\ \A n \in DOMAIN scans :
        ScanMatched(scans[n]) = ScanMatched(ScanCategories(StraightQuoted(conv.messages)))
(***************************************************************************)
(* C17: the order of the findings lists.                                   *)
(***************************************************************************)
\* The entries' timestamps never decrease, an entry without timestamp
\* counting as earlier than every point in time.
Chronological(entries) ==
  \A i, j \in DOMAIN entries :
     i < j =>
       /\ Truthy(entries[i].timestamp) =>
            /\ Truthy(entries[j].timestamp)
            /\ entries[i].timestamp.day <= entries[j].timestamp.day

\* The analysed list mixes messages with and without timestamp.
MixedTimestamps(messages) ==
  \E i, j \in DOMAIN messages :
     Truthy(messages[i].timestamp) /\ ~Truthy(messages[j].timestamp)

\* The analysed list is not in chronological order.
OutOfOrder(messages) == ~Chronological(messages)

\* The conversation analyzer sorts its messages when it is built: the lists
\* of analyze_abuse_patterns are chronological.
ScansAreChronological ==
  \A n \in DOMAIN scans :
     \A c \in DOMAIN scans[n] : Chronological(scans[n][c].messages)

\* analyze_abuse_patterns has run on a list given out of order.
ScannedOutOfOrder ==
  /\ scans # << >>
  /\ \E c \in DOMAIN scans[1] : Len(scans[1][c].messages) > 1
  /\ OutOfOrder(input)

\* analyze_text sorts its findings only when all or none has a timestamp.
MatcherSortsUnmixed ==
  \A n \in DOMAIN findings :
     IF Raised(findings[n])
     THEN findings[n] = TypeError /\ MixedTimestamps(input)
     ELSE \A c \in FoundCategories(findings[n]) : Chronological(findings[n][c])

\* analyze_text has run on a list given latest first, all with timestamp.
MatchedOutOfOrder ==
  /\ findings # << >>
  /\ ~Raised(findings[1])
  /\ OutOfOrder(input)
  /\ \E c \in FoundCategories(findings[1]) :
        \E i, j \in DOMAIN findings[1][c] :
           findings[1][c][i].timestamp # findings[1][c][j].timestamp

\* C17: every findings list of the analysis output (the category lists of
\* analyze_text, the instances of the DARVO detectors, the message lists of
\* analyze_abuse_patterns) is in non-decreasing order of timestamp with the
\* untimestamped entries first, whatever the order and the mix of the input,
\* and no analysis fails to produce it.
C17_FindingsAreChronological ==
  /\ \A n \in DOMAIN findings :
        /\ ~Raised(findings[n])
        /\ \A c \in FoundCategories(findings[n]) : Chronological(findings[n][c])
  /\ \A n \in DOMAIN results :
        /\ ~Raised(results[n])
        /\ \A c \in Categories :
              \A s \in DOMAIN PatternMap(results[n], c) :
                 Chronological(PatternMap(results[n], c)[s].instances)
  /\ \A n \in DOMAIN scans :
        \A c \in DOMAIN scans[n] : Chronological(scans[n][c].messages)
(***************************************************************************)
(* C18: the caller's messages.                                             *)
(***************************************************************************)
\* Building the DARVO analyzer, running its analysis and running the
\* document matcher leave the caller's list as it was.
DarvoAndMatcherKeepInput ==
  [][pc' \in {"darvo", "text"} => input' = input]_vars

\* A DARVO analyzer has been built on a list that the normaliser would change.
DarvoOnUnnormalised ==
  pc = "darvo" /\ results # << >> /\ normalize_messages(input) # input

\* C18: no step of an analyzer changes the caller's messages: once the
\* caller has handed its list to an analyzer (the step leaves the caller's
\* assembling of the list), every message of the list has the sender, text,
\* timestamp and platform it had before the step.
C18_AnalysisKeepsInput ==
  [][pc' # "input" => input' = input]_vars
(***************************************************************************)
(* C19: messages with a missing or unusable field.                         *)
(***************************************************************************)
\* The message lacks the text field.
LacksText(msg) == "text" \notin DOMAIN msg

\* The messages with the bad fields read as empty: a missing or None text
\* as the empty text, a timestamp that is no point in time as None.
Repaired(messages) ==
  [i \in DOMAIN messages |->
     [sender |-> messages[i].sender,
      text |-> IF get_text(messages[i]) = NoneText THEN "" ELSE get_text(messages[i]),
      timestamp |-> IF messages[i].timestamp.kind = "str" THEN None
                    ELSE messages[i].timestamp,
      platform |-> messages[i].platform]]

\* What the code does: a message without text field is read as empty and
\* the others are analysed as usual; the analysis raises exactly when some
\* text is None or some timestamp is a string.
OnlyMissingTextIsTolerated ==
  \A n \in DOMAIN results :
     IF ConversationRaises(Analysed)
     THEN results[n] = AttributeError
     ELSE DarvoMatched(results[n])
            = DarvoMatched(analyze_conversation(Repaired(Analysed), clock))

\* A list with a message without text field and a message that matches has
\* been analysed.
MissingTextAnalysed ==
  /\ results # << >>
  /\ ~Raised(results[1])
  /\ \E i \in DOMAIN Analysed : LacksText(Analysed[i])
  /\ DarvoMatched(results[1]) # {}

\* C19: on a list in which some message lacks the text field, carries the
\* text None or carries a timestamp that is no point in time, the DARVO
\* analysis (classification, scoring, timeline) raises nothing and gives what
\* it gives on the list with those fields read as empty.
C19_BadFieldsNeverRaise ==
  \A n \in DOMAIN results :
     /\ ~Raised(results[n])
     /\ DarvoMatched(results[n])
          = DarvoMatched(analyze_conversation(Repaired(Analysed), clock))
(***************************************************************************)
(* C20: the findings of one message under one category.                    *)
(***************************************************************************)
MatchKinds == {"exact", "fuzzy", "synonym"}

\* The finding was made on a message with the fields of msg.
FindingOf(f, msg) ==
  /\ f.full_message = replace_smart_quotes(get_text(msg))
  /\ f.sender = msg.sender
  /\ f.timestamp = msg.timestamp

\* How many messages of the analysed list have the fields of msg.
Copies(msg) ==
  Cardinality({ i \in DOMAIN input :
                  /\ replace_smart_quotes(get_text(input[i]))
                       = replace_smart_quotes(get_text(msg))
                  /\ input[i].sender = msg.sender
                  /\ input[i].timestamp = msg.timestamp })

\* How many findings of the kind the category's list has for such messages.
KindCount(r, c, msg, kind) ==
  Cardinality({ j \in DOMAIN r[c] : r[c][j].type = kind /\ FindingOf(r[c][j], msg) })

\* The matches of a kind that a message has under a category.
MatchesOfKind(msg, c, kind) ==
  SelectSeq(TextMatches[get_text(msg)][c], LAMBDA m : m.type = kind)

\* What the code does: under a category a message has one exact finding per
\* occurrence of each keyword, at most one fuzzy finding per keyword and one
\* synonym finding per occurrence of a synonym of each keyword.
FindingsPerKeyword ==
  \A n \in DOMAIN findings :
     ~Raised(findings[n]) =>
       \A i \in DOMAIN input :
          \A c \in DOMAIN ABUSE_INDICATORS :
             LET name == ABUSE_INDICATORS[c].category
                 lower_text == lower(replace_smart_quotes(get_text(input[i])))
             IN  /\ \A kind \in MatchKinds :
                       Len(MatchesOfKind(input[i], c, kind)) * Copies(input[i])
                         = IF name \in DOMAIN findings[n]
                           THEN KindCount(findings[n], name, input[i], kind)
                           ELSE 0
                 /\ \A k \in DOMAIN ABUSE_INDICATORS[c].keywords :
                       LET keyword == ABUSE_INDICATORS[c].keywords[k]
                           of_keyword(kind) ==
                             Len(SelectSeq(MatchesOfKind(input[i], c, kind),
                                           LAMBDA m : m.indicator = keyword))
                       IN  /\ of_keyword("exact")
                                = Len(finditer(lower(keyword), lower_text, 1))
                           /\ of_keyword("fuzzy") <= 1

\* A message in which one keyword occurs twice and a second keyword of the
\* same category once has been analysed.
SeveralOfOneKind ==
  /\ findings # << >>
  /\ ~Raised(findings[1])
  /\ \E i \in DOMAIN input :
        \E c \in FoundCategories(findings[1]) :
           /\ KindCount(findings[1], c, input[i], "exact") > Copies(input[i])
           /\ KindCount(findings[1], c, input[i], "fuzzy") > Copies(input[i])

\* C20: in the result of analyze_text a message has, under a category, at
\* most one finding of each match kind (exact, fuzzy, synonym), however many
\* keywords of the category match and however often a keyword occurs.
C20_OneFindingPerKind ==
  \A n \in DOMAIN findings :
     ~Raised(findings[n]) =>
       \A i \in DOMAIN input :
          \A c \in FoundCategories(findings[n]) :
             \A kind \in MatchKinds :
                KindCount(findings[n], c, input[i], kind) <= Copies(input[i])
(***************************************************************************)
(* C21: the synonym matcher of the pattern engine.                         *)
(***************************************************************************)
\* The text contains the keyword or one of the synonyms configured for it,
\* in whatever letter case.
ContainsKeywordOrSynonym(text, keyword) ==
  \/ Occurs(keyword, text)
  \/ \E s \in SynonymsOf(keyword) : Occurs(s, text)

\* The keywords of all categories.
AllKeywords ==
  UNION { { ABUSE_INDICATORS[c].keywords[k] : k \in DOMAIN ABUSE_INDICATORS[c].keywords } :
          c \in DOMAIN ABUSE_INDICATORS }

\* What the code does: for the keywords written without capitals the matcher
\* reports a match exactly when the text contains the keyword or a synonym,
\* in whatever letter case; a keyword written with capitals never matches.
SynonymMatchOfLowerCaseKeywords ==
  advanced # << >> =>
    \A i \in DOMAIN input :
       \A kw \in AllKeywords :
          synonym_match(get_text(input[i]), kw)
            <=> /\ kw = lower(kw)
                /\ ContainsKeywordOrSynonym(get_text(input[i]), kw)

\* The engine has analysed a text with capitals that contains a synonym of
\* a keyword, and a text that contains a keyword configured with capitals.
SynonymInCapitalsAnalysed ==
  /\ advanced # << >>
  /\ \E i \in DOMAIN input :
        /\ get_text(input[i]) # lower(get_text(input[i]))
        /\ \E kw \in AllKeywords :
              /\ ~Occurs(kw, get_text(input[i]))
              /\ synonym_match(get_text(input[i]), kw)
  /\ \E i \in DOMAIN input :
        \E kw \in AllKeywords : kw # lower(kw) /\ Occurs(kw, get_text(input[i]))

\* C21: the synonym matcher reports a match exactly when the text contains,
\* in whatever letter case, the keyword or one of the synonyms configured
\* for it, also when the keyword is configured with capitals.
C21_SynonymMatchIgnoresCase ==
  advanced # << >> =>
    \A i \in DOMAIN input :
       \A kw \in AllKeywords :
          synonym_match(get_text(input[i]), kw)
            <=> ContainsKeywordOrSynonym(get_text(input[i]), kw)
(***************************************************************************)
(* C22: the threshold of the fuzzy matchers.                               *)
(***************************************************************************)
\* The matching sizes of the windows of the keyword's length in the lowered
\* text (0 for a window that shares too few characters with the keyword to
\* reach the threshold).
WindowSizes(text, keyword) ==
  LET a == lower(text)
      b == lower(keyword)
  IN  { IF 40 * SharedSize(SubSeq(a, i, i + Len(b) - 1), b) >= 34 * Len(b)
        THEN MatchingSize(SubSeq(a, i, i + Len(b) - 1), b, 1, Len(b), 1, Len(b))
        ELSE 0 :
        i \in 1..(Len(a) - Len(b) + 1) }

\* Per text of the samples: the keywords for which some window of the
\* keyword's length has similarity ratio 2 * size / (2 * length) >= 0.85,
\* and those for which some window has a ratio > 0.85.
WindowHits ==
  [t \in MatcherTexts |->
     [atLeast |-> { kw \in AllKeywords :
                      \E size \in WindowSizes(replace_smart_quotes(t), kw) :
                         40 * size >= 34 * Len(kw) },
      above |-> { kw \in AllKeywords :
                    \E size \in WindowSizes(replace_smart_quotes(t), kw) :
                       40 * size > 34 * Len(kw) }]]

\* The keywords with a fuzzy finding for the message in a result of
\* analyze_text.
FuzzyFound(r, msg) ==
  { kw \in AllKeywords :
      \E c \in FoundCategories(r) :
         \E j \in DOMAIN r[c] :
            r[c][j].type = "fuzzy" /\ r[c][j].indicator = kw /\ FindingOf(r[c][j], msg) }

\* What analyze_text does: a fuzzy finding exactly for the keywords with a
\* window of ratio above 0.85; a ratio of exactly 0.85 is no hit.
FuzzyFindingAboveThreshold ==
  \A n \in DOMAIN findings :
     ~Raised(findings[n]) =>
       \A i \in DOMAIN input :
          FuzzyFound(findings[n], input[i]) = WindowHits[get_text(input[i])].above

\* A text whose best window has ratio exactly 0.85 with a keyword has been
\* through analyze_text and through the engine.
RatioAtThreshold(text) ==
  WindowHits[text].atLeast # WindowHits[text].above

MatchedAtThreshold ==
  /\ findings # << >>
  /\ \E i \in DOMAIN input : RatioAtThreshold(get_text(input[i]))

\* What the engine does with a keyword inside a sentence: the ratio is taken
\* against the whole text, so a keyword that matches a text of its own
\* length is lost when words surround it.
EngineLosesSurrounded ==
  /\ advanced # << >>
  /\ \E i, j \in DOMAIN input :
        \E kw \in AllKeywords :
           /\ str_contains(lower(get_text(input[i])), lower(get_text(input[j])))
           /\ fuzzy_match(get_text(input[i]), kw)
           /\ ~fuzzy_match(get_text(input[j]), kw)

\* C22: a fuzzy matcher reports a hit for a keyword exactly when some window
\* of the keyword's length in the text has similarity ratio >= 0.85 with
\* the keyword; a ratio of exactly 0.85 is a hit, and what surrounds the
\* window does not matter.  Both fuzzy matchers: the one of analyze_text and
\* the one of the pattern engine.
C22_FuzzyHitAtThreshold ==
  /\ \A n \in DOMAIN findings :
        ~Raised(findings[n]) =>
          \A i \in DOMAIN input :
             FuzzyFound(findings[n], input[i]) = WindowHits[get_text(input[i])].atLeast
  /\ advanced # << >> =>
       \A i \in DOMAIN input :
          \A kw \in AllKeywords :
             fuzzy_match(get_text(input[i]), kw)
               <=> kw \in WindowHits[get_text(input[i])].atLeast
(***************************************************************************)
(* C23: the escalation heuristic of the pattern engine.                    *)
(***************************************************************************)
\* The number of abuse indicators (keywords) the engine matches in a message.
IndicatorCount(msg) ==
  Len(Flatten([j \in DOMAIN analyze_message(msg) |-> analyze_message(msg)[j].keywords]))

\* The number of categories the engine matches in a message.
CategoryCount(msg) ==
  Cardinality({ analyze_message(msg)[j].category : j \in DOMAIN analyze_message(msg) })

\* What the code does: the flag is true exactly when the number of matched
\* categories increases from some message to the next; it is false for the
\* empty list and for a list of one message.
EscalationCountsCategories ==
  \A n \in DOMAIN advanced :
     /\ advanced[n]["escalation_detected"]
          = \E i \in 1..(Len(input) - 1) :
               CategoryCount(input[i]) < CategoryCount(input[i + 1])
     /\ Len(input) < 2 => ~advanced[n]["escalation_detected"]

\* The engine has analysed a message of one indicator followed by a message
\* of two indicators of the same category.
MoreIndicatorsSameCategory ==
  /\ advanced # << >>
  /\ \E i \in 1..(Len(input) - 1) :
        /\ IndicatorCount(input[i]) < IndicatorCount(input[i + 1])
        /\ CategoryCount(input[i]) = CategoryCount(input[i + 1])

\* The engine has analysed a list on which it reports an escalation.
EscalationReported ==
  advanced # << >> /\ advanced[1]["escalation_detected"]

\* C23: the engine's escalation flag is true exactly when, for some message
\* and the next one, the later message matches strictly more abuse
\* indicators in total than the earlier one; it is false for the empty list
\* and for a list of one message.
C23_EscalationCountsIndicators ==
  \A n \in DOMAIN advanced :
     /\ advanced[n]["escalation_detected"]
          = \E i \in 1..(Len(input) - 1) :
               IndicatorCount(input[i]) < IndicatorCount(input[i + 1])
     /\ Len(input) < 2 => ~advanced[n]["escalation_detected"]
(***************************************************************************)
(* C24: the result map of analyze_text.                                    *)
(***************************************************************************)
\* The categories under which some analysed message has a match.
MatchedCategories ==
  { ABUSE_INDICATORS[c].category :
      c \in { d \in DOMAIN ABUSE_INDICATORS :
                \E i \in DOMAIN input : TextMatches[get_text(input[i])][d] # << >> } }

\* The findings of all the categories of a result.
TotalFindings(r) ==
  Len(Flatten([c \in DOMAIN ABUSE_INDICATORS |->
                 IF ABUSE_INDICATORS[c].category \in DOMAIN r
                 THEN r[ABUSE_INDICATORS[c].category] ELSE << >>]))

C24_FlagWitness ==
  /\ findings # << >>
  /\ ~Raised(findings[1])
  /\ Cardinality(MatchedCategories) > 2
  /\ findings[1]["escalation_detected"]

DocumentationActions ==
  { "Document all communications for legal proceedings",
    "Consider consultation with domestic violence advocate" }

ChildActions ==
  { "URGENT: Child-focused manipulation detected - consider immediate protective measures",
    "Document all child-related statements for custody proceedings",
    "Consult with family law attorney regarding parental alienation concerns" }

MonitoringAction == "Continue monitoring communications for patterns"

\* Some analysed message matches a keyword of the category.
SomeMessageMatches(category) ==
  \E i \in DOMAIN Analysed :
     \E s \in DOMAIN Matching[get_text(Analysed[i])][category] :
        Matching[get_text(Analysed[i])][category][s] # {}

\* Each of the three DARVO roles appears in some message.
FullPattern ==
  /\ SomeMessageMatches("Deny")
  /\ SomeMessageMatches("Attack")
  /\ SomeMessageMatches("Reverse_Victim_Offender")

ChildHit == SomeMessageMatches("Child_Focused")

\* The members of a list.
Members(list) == { list[j] : j \in DOMAIN list }

\* C25: for every non-empty list the analysis returns a non-empty list of
\* recommended actions: the two documentation and advocate actions are in
\* it exactly when the full DARVO pattern is present, the three
\* child-related actions (the URGENT one among them) exactly when some
\* message has a child-focused hit, and it is the single action "Continue
\* monitoring ..." exactly when neither is the case.
C25_RecommendedActions ==
  \A n \in DOMAIN results :
     (~Raised(results[n]) /\ Analysed # << >>) =>
       LET actions == results[n].forensic_summary.recommended_actions
       IN  /\ actions # << >>
           /\ (DocumentationActions \subseteq Members(actions)) <=> FullPattern
           /\ (DocumentationActions \cap Members(actions) # {}) <=> FullPattern
           /\ (ChildActions \subseteq Members(actions)) <=> ChildHit
           /\ (ChildActions \cap Members(actions) # {}) <=> ChildHit
           /\ (actions = << MonitoringAction >>) <=> (~FullPattern /\ ~ChildHit)
           /\ (MonitoringAction \in Members(actions)) <=> (~FullPattern /\ ~ChildHit)

\* A list with the full pattern and a child-focused hit has been analysed.
C25_Witness ==
  /\ results # << >>
  /\ ~Raised(results[1])
  /\ input # << >>
  /\ FullPattern
  /\ ChildHit
  /\ Len(results[1].forensic_summary.recommended_actions) = 5

\* The other three cases: the full pattern alone, a child-focused hit
\* alone, neither.
C25_FullPatternOnly ==
  results # << >> /\ ~Raised(results[1]) /\ input # << >> /\ FullPattern /\ ~ChildHit

C25_ChildOnly ==
  results # << >> /\ ~Raised(results[1]) /\ input # << >> /\ ~FullPattern /\ ChildHit

C25_Neither ==
  results # << >> /\ ~Raised(results[1]) /\ input # << >> /\ ~FullPattern /\ ~ChildHit
(***************************************************************************)
(* C26: the messages recorded in a compound match.                         *)
(***************************************************************************)
\* The messages [i, min(i + W, n)) of the analysed list, i counted from 0.
WindowAt(i, W) ==
  SubSeq(Analysed, i + 1, IF i + W < Len(Analysed) THEN i + W ELSE Len(Analysed))

\* The messages of the window that advance the pointer into the pattern,
\* from message j on with the pointer at p roles found.
RECURSIVE ContributorsFrom(_, _, _, _)
ContributorsFrom(window, pattern, p, j) ==
  IF j > Len(window) \/ p = Len(pattern) THEN << >>
  ELSE IF \E k \in DOMAIN RolesOf(window[j]) : RolesOf(window[j])[k] = pattern[p + 1]
  THEN << window[j] >> \o ContributorsFrom(window, pattern, p + 1, j + 1)
  ELSE ContributorsFrom(window, pattern, p, j + 1)

Contributors(window, pattern) == ContributorsFrom(window, pattern, 0, 1)

\* The messages of the window that carry a role (deny, attack or reverse).
RoleCarriers(window) == SelectSeq(window, LAMBDA m : RolesOf(m) # << >>)

\* The windows a match of the result can stem from: pattern and offset.
WindowsOf(match) ==
  { w \in (DOMAIN DARVO_COMPOUND_PATTERNS) \X (0..Len(Analysed)) :
      /\ DARVO_COMPOUND_PATTERNS[w[1]].name = match.pattern_type
      /\ w[2] <= Len(Analysed) - Len(DARVO_COMPOUND_PATTERNS[w[1]].pattern)
      /\ LET window == WindowAt(w[2], DARVO_COMPOUND_PATTERNS[w[1]].window_messages)
         IN  /\ Len(Contributors(window, DARVO_COMPOUND_PATTERNS[w[1]].pattern))
                  = Len(DARVO_COMPOUND_PATTERNS[w[1]].pattern)
             /\ match.start_time = window[1].timestamp
             /\ match.end_time = window[Len(window)].timestamp }

\* A sequence is a subsequence of another: its members in their order.
RECURSIVE IsSubsequence(_, _)
IsSubsequence(a, b) ==
  IF a = << >> THEN TRUE
  ELSE IF b = << >> THEN FALSE
  ELSE IF a[1] = b[1] THEN IsSubsequence(Tail(a), Tail(b))
  ELSE IsSubsequence(a, Tail(b))

\* C26 as amended: the messages recorded in a compound match are exactly
\* the messages of its window that carry at least one of the roles deny,
\* attack, reverse, in their order: the messages that advanced the pattern
\* pointer are among them, and so is every other role-carrying message of
\* the window; messages without any of the three roles are not recorded.
C26_MatchRecordsRoleCarriers ==
  \A n \in DOMAIN results :
     ~Raised(results[n]) =>
       \A k \in DOMAIN results[n].compound_patterns :
          LET match == results[n].compound_patterns[k]
          IN  /\ \E w \in WindowsOf(match) :
                    LET window == WindowAt(w[2], DARVO_COMPOUND_PATTERNS[w[1]].window_messages)
                    IN  /\ match.messages = RoleCarriers(window)
                        /\ IsSubsequence(Contributors(window,
                                                      DARVO_COMPOUND_PATTERNS[w[1]].pattern),
                                         match.messages)
              /\ \A j \in DOMAIN match.messages : RolesOf(match.messages[j]) # << >>

\* A match whose window holds a message that carries a role without
\* advancing the pointer, and a message without role.
C26_Witness ==
  /\ results # << >>
  /\ ~Raised(results[1])
  /\ \E k \in DOMAIN results[1].compound_patterns :
        LET match == results[1].compound_patterns[k]
        IN  \E w \in WindowsOf(match) :
               LET window == WindowAt(w[2], DARVO_COMPOUND_PATTERNS[w[1]].window_messages)
               IN  /\ Len(match.messages)
                        > Len(Contributors(window, DARVO_COMPOUND_PATTERNS[w[1]].pattern))
                   /\ Len(match.messages) < Len(window)

\* C26: the messages recorded in a compound match are exactly the window
\* messages that advanced the pattern pointer; window messages that did
\* not, those carrying some other role included, are not recorded.
C26_MatchRecordsContributors ==
  \A n \in DOMAIN results :
     ~Raised(results[n]) =>
       \A k \in DOMAIN results[n].compound_patterns :
          LET match == results[n].compound_patterns[k]
          IN  \E w \in WindowsOf(match) :
                 match.messages
                   = Contributors(WindowAt(w[2], DARVO_COMPOUND_PATTERNS[w[1]].window_messages),
                                  DARVO_COMPOUND_PATTERNS[w[1]].pattern)
(***************************************************************************)
(* C27: the windows of the compound detector.                              *)
(***************************************************************************)
\* The window holds the roles of the pattern in order: at strictly
\* increasing positions, one message per role that carries it.
InOrder(window, pattern) ==
  \E f \in [DOMAIN pattern -> DOMAIN window] :
     /\ \A a, b \in DOMAIN pattern : a < b => f[a] < f[b]
     /\ \A a \in DOMAIN pattern :
           \E k \in DOMAIN RolesOf(window[f[a]]) : RolesOf(window[f[a]])[k] = pattern[a]

\* The start offsets 0..n-k of a pattern whose window holds the pattern in
\* order, in increasing order.
MatchingOffsets(pattern_def) ==
  SelectSeq([o \in 1..(Len(Analysed) - Len(pattern_def.pattern) + 1) |-> o - 1],
            LAMBDA i : InOrder(WindowAt(i, pattern_def.window_messages), pattern_def.pattern))

\* What a match at an offset records.
ExpectedMatch(pattern_def, i) ==
  LET window == WindowAt(i, pattern_def.window_messages)
  IN  [pattern_type |-> pattern_def.name,
       description |-> pattern_def.description,
       messages |-> RoleCarriers(window),
       severity |-> 2 * Len(pattern_def.pattern),
       start_time |-> window[1].timestamp,
       end_time |-> window[Len(window)].timestamp]

\* C27: for each pattern of k roles and window size W on n messages the
\* detector examines the start offsets 0..n-k, each over the messages
\* [i, min(i + W, n)), and reports one match per offset whose window holds
\* the pattern in order: the matches of overlapping windows and of
\* different patterns on the same window are all there, none merged, and a
\* list of fewer than 2 messages, or of fewer than k, has no match.
C27_OneMatchPerMatchingOffset ==
  \A n \in DOMAIN results :
     ~Raised(results[n]) =>
       /\ \A p \in DOMAIN DARVO_COMPOUND_PATTERNS :
             LET pattern_def == DARVO_COMPOUND_PATTERNS[p]
                 reported == SelectSeq(results[n].compound_patterns,
                                       LAMBDA m : m.pattern_type = pattern_def.name)
                 offsets == IF Len(Analysed) < 2 THEN << >> ELSE MatchingOffsets(pattern_def)
             IN  /\ reported = [j \in DOMAIN offsets |-> ExpectedMatch(pattern_def, offsets[j])]
                 /\ Len(Analysed) < Len(pattern_def.pattern) => reported = << >>
       /\ \A k \in DOMAIN results[n].compound_patterns :
             \E p \in DOMAIN DARVO_COMPOUND_PATTERNS :
                results[n].compound_patterns[k].pattern_type = DARVO_COMPOUND_PATTERNS[p].name
       /\ Len(Analysed) < 2 => results[n].compound_patterns = << >>

\* Two overlapping windows of one pattern have each reported a match with
\* the same messages, and a second pattern has a match too.
C27_Witness ==
  /\ results # << >>
  /\ ~Raised(results[1])
  /\ \E j, k \in DOMAIN results[1].compound_patterns :
        /\ j < k
        /\ results[1].compound_patterns[j].pattern_type
             = results[1].compound_patterns[k].pattern_type
        /\ results[1].compound_patterns[j].messages = results[1].compound_patterns[k].messages
  /\ \E j, k \in DOMAIN results[1].compound_patterns :
        results[1].compound_patterns[j].pattern_type
          # results[1].compound_patterns[k].pattern_type

\* A single message that carries two roles of a pattern: no match.
C27_SingleMessage ==
  /\ results # << >>
  /\ ~Raised(results[1])
  /\ Len(Analysed) = 1
  /\ Len(RolesOf(Analysed[1])) >= 2
(***************************************************************************)
(* C28: within one analysis result the total score is the sum of the       *)
(* severity fields of all the instances of the five pattern maps, and each *)
(* category subtotal the result has is the sum over the instances of that  *)
(* category's own map.                                                     *)
(***************************************************************************)
RECURSIVE SeverityOfInstances(_)
SeverityOfInstances(instances) ==
  IF instances = << >> THEN 0
  ELSE Head(instances).severity + SeverityOfInstances(Tail(instances))

\* The sum of the severity fields of one pattern map.
SeverityOfMap(map) ==
  SumOfSet([n \in DOMAIN map |-> SeverityOfInstances(map[n].instances)], DOMAIN map)

\* The key of category_scores that belongs to a pattern map.
ScoreKey(category) ==
  CASE category = "Deny" -> "deny"
    [] category = "Attack" -> "attack"
    [] category = "Reverse_Victim_Offender" -> "reverse"
    [] category = "Institutional_DARVO" -> "institutional"
    [] category = "Child_Focused" -> "child_focused"

InstanceTotal(r) ==
  SumOfSet([c \in Categories |-> SeverityOfMap(PatternMap(r, c))], Categories)

C28_ScorerAgreesWithDetectors ==
  \A r \in DOMAIN results :
     LET s == results[r].severity_assessment
     IN  results[r] # AttributeError =>
         /\ s.total_score = InstanceTotal(results[r])
         /\ \A c \in Categories :
               ScoreKey(c) \in DOMAIN s.category_scores =>
                 s.category_scores[ScoreKey(c)] = SeverityOfMap(PatternMap(results[r], c))

\* A list analysed with instances in at least three of the maps, one of them
\* the child-focused map, and two instances in one subcategory.
C28_Witness ==
  /\ AnalysedList
  /\ Cardinality({ c \in Categories : SeverityOfMap(PatternMap(results[1], c)) > 0 }) >= 3
  /\ SeverityOfMap(results[1].child_focused_patterns) >= 10
  /\ \E c \in Categories :
        \E n \in DOMAIN PatternMap(results[1], c) :
           Len(PatternMap(results[1], c)[n].instances) >= 2
  /\ results[1].severity_assessment.total_score = InstanceTotal(results[1])

\* A document analysed: the instances of its one message.
C28_Document ==
  /\ pc = "darvo" /\ doc # "" /\ Len(results) > 0
  /\ InstanceTotal(results[1]) > 0
  /\ results[1].severity_assessment.total_score = InstanceTotal(results[1])
(***************************************************************************)
(* C29: whenever the compound patterns of a result hold a match of the     *)
(* full_darvo_sequence, the forensic summary reports the full DARVO        *)
(* pattern as detected; and the forensic summary counts, for each of deny, *)
(* attack and reverse, exactly the messages the compound detector          *)
(* classifies with that role.                                              *)
(***************************************************************************)
HasFullSequence(r) ==
  \E j \in DOMAIN r.compound_patterns :
     r.compound_patterns[j].pattern_type = "full_darvo_sequence"

\* The messages the compound detector gives the role.
ClassifiedAs(role) ==
  { i \in DOMAIN Analysed : Contains(Classifications(Analysed[i]), role) }

C29_OrderedImpliesUnordered ==
  \A r \in DOMAIN results :
     (pc = "darvo" /\ results[r] # AttributeError) =>
       LET f == results[r].forensic_summary
       IN  /\ HasFullSequence(results[r]) => f.full_darvo_pattern_detected
           /\ Analysed # << >> =>
                /\ f.instance_counts.deny_instances = Cardinality(ClassifiedAs("deny"))
                /\ f.instance_counts.attack_instances = Cardinality(ClassifiedAs("attack"))
                /\ f.instance_counts.reverse_instances = Cardinality(ClassifiedAs("reverse"))

\* A list analysed with a full sequence among its compound patterns.
C29_Witness ==
  /\ AnalysedList
  /\ HasFullSequence(results[1])
  /\ results[1].forensic_summary.full_darvo_pattern_detected
  /\ ClassifiedAs("deny") # {} /\ ClassifiedAs("attack") # {} /\ ClassifiedAs("reverse") # {}

\* The converse fails: the three roles present, out of order, and no full
\* sequence among the compound patterns.
C29_UnorderedOnly ==
  /\ AnalysedList
  /\ results[1].forensic_summary.full_darvo_pattern_detected
  /\ ~ HasFullSequence(results[1])
(***************************************************************************)
(* C30: in every analysis result the high-risk flag of the forensic        *)
(* summary is true exactly when the child-focused subtotal of the severity *)
(* assessment is greater than 0 and exactly when some subcategory of the   *)
(* child-focused pattern map has a count greater than 0; and whenever the  *)
(* flag is true the risk level is critical.                                *)
(***************************************************************************)
\* The child-focused subtotal is greater than 0 (the result for empty input
\* has no subtotals at all).
ChildSubtotalPositive(r) ==
  /\ "child_focused" \in DOMAIN r.severity_assessment.category_scores
  /\ r.severity_assessment.category_scores.child_focused > 0

ChildCountPositive(r) ==
  \E n \in DOMAIN r.child_focused_patterns : r.child_focused_patterns[n].count > 0

C30_HighRiskSignalsAgree ==
  \A r \in DOMAIN results :
     results[r] # AttributeError =>
       LET flag == results[r].forensic_summary.high_risk_indicators
       IN  /\ flag <=> ChildSubtotalPositive(results[r])
           /\ flag <=> ChildCountPositive(results[r])
           /\ flag => results[r].severity_assessment.risk_level = "critical"

\* One child-focused hit in a list whose total score is below every
\* threshold: the three signals are on and the level is critical.
C30_Witness ==
  /\ AnalysedList
  /\ results[1].forensic_summary.high_risk_indicators
  /\ ChildSubtotalPositive(results[1])
  /\ ChildCountPositive(results[1])
  /\ results[1].severity_assessment.total_score <= 15
  /\ results[1].severity_assessment.risk_level = "critical"

\* Keywords matched and none of them child-focused: the three signals are off.
C30_NoChild ==
  /\ AnalysedList
  /\ results[1].severity_assessment.total_score > 0
  /\ ~ results[1].forensic_summary.high_risk_indicators
  /\ ~ ChildSubtotalPositive(results[1])
  /\ ~ ChildCountPositive(results[1])

\* The result for empty input: no flag, no subtotal, no subcategory.
C30_Empty ==
  /\ AnalysedList /\ input = << >>
  /\ ~ results[1].forensic_summary.high_risk_indicators
  /\ results[1].severity_assessment.category_scores = EmptyDict
  /\ results[1].child_focused_patterns = EmptyDict
=============================================================================
